---- MODULE Spec2Model ----
(***************************************************************************)
(* State-machine model of NazarProfilerClass                               *)
(* (src/src/profiler/NazarProfiler.ts): session lifecycle, screen and      *)
(* component tracking, the frame-sampling loop, the event bus and the      *)
(* data-access methods.                                                    *)
(* The context-based ProfilerProvider (src/unnamed/part_002) is the        *)
(* variable `provider`.                                                    *)
(*                                                                         *)
(* Conventions                                                             *)
(*  - a JS Map is a function whose DOMAIN is the key set;                  *)
(*  - a JS Set of listeners is a duplicate-free sequence (a Set iterates   *)
(*    in insertion order);                                                 *)
(*  - ScreenMetrics objects live in `heap`, the Map `screens` holds        *)
(*    references (object ids) to them, so that aliasing between the        *)
(*    profiler and the values it hands out is visible;                     *)
(*  - a JS number that is the result of a division is a rational           *)
(*    [num, den] in lowest terms, or one of the IEEE specials;             *)
(*  - Date.now() is the variable `now`, advanced by Tick.                  *)
(***************************************************************************)
EXTENDS Integers, Sequences, FiniteSets, TLC

\* ------------------------------------------------------------------ bounds
MaxMounts == 3        \* cap on globalMetrics.totalMounts
MaxRenders == 1       \* cap on globalMetrics.totalRenders
MaxInteractions == 1  \* cap on a screen's interactionCount
MaxElapsed == 40      \* cap on the time the clock advances
MaxScreenTime == 80   \* cap on a screen's timeOnScreen
MaxLoops == 2         \* cap on simultaneously pending frame-loop callbacks
MaxFrames == 2        \* cap on frameCount
MaxFpsSamples == 2    \* cap on the number of recordFps calls kept
MaxBlockTime == 630   \* cap on a screen's jsThreadBlockTime
MaxRecorded == 2      \* cap on the recordScreen and on the recordRender calls
StartClock == 1000    \* value of Date.now() at construction

\* ------------------------------------------------------------ input sets
ScreenNames == {"Home", "Details"}
ComponentNames == {"Header"}
Durations == {12, 25, 101}
TimeSteps == {20, 40}
MB == 1024 * 1024
MemReadings == {0, 30 * MB}
NoMemory == {0}       \* getCurrentMemory() without a memory capability
LongSteps == {40}
FastDurations == {12, 25}
OneScreen == {"Home"}
SlowThresholdChoices == {16, 110}
VerySlowThresholdChoices == {100}
MemorySpikeChoices == {50 * MB}
OptionNames == {"slowRenderThreshold", "verySlowRenderThreshold",
                "memorySpikeThreshold"}
FpsInputs == {30, 52, 130}
CustomKeys == {"", "user"}
CustomValues == {1, 2}
Undefined == "<undefined>"
EventTypes == {"onScreenEnter", "onScreenExit", "onSlowRender",
               "onMemorySpike", "onFrameDrop", "onJank"}
Callbacks == {"cbLog", "cbThrows"}
BusEvents == {"onScreenExit", "onSlowRender"}
NullScreen == "<null>"
ObjIds == 1 .. (2 * Cardinality(ScreenNames) + 1)

\* ------------------------------------------------------ program constants
DefaultSlowRenderThreshold == 16
DefaultVerySlowRenderThreshold == 100
DefaultMemorySpikeThreshold == 50 * MB
DefaultFps == 60
FrameIntervalX100 == 1667   \* 16.67 ms, in hundredths of a millisecond
JankThreshold == 50
FpsHistoryCap == 60

\* --------------------------------------------------------- JS arithmetic
RECURSIVE Gcd(_, _)
Gcd(a, b) == IF b = 0 THEN a ELSE Gcd(b, a % b)

Abs(x) == IF x < 0 THEN -x ELSE x

Sign(x) == IF x < 0 THEN -1 ELSE IF x > 0 THEN 1 ELSE 0

\* a finite number n/d, d # 0, in lowest terms with a positive denominator
Num(n, d) ==
    LET g == Gcd(Abs(n), Abs(d))
        s == IF d < 0 THEN -1 ELSE 1
    IN  [kind |-> "num", num |-> s * (n \div g), den |-> s * (d \div g)]

NaN == [kind |-> "nan", num |-> 0, den |-> 0]

Inf(s) == [kind |-> "inf", num |-> s, den |-> 0]

IsFinite(x) == x.kind = "num"

\* x * k for an integer k
FMul(x, k) ==
    IF x.kind = "nan" THEN NaN
    ELSE IF x.kind = "inf" THEN (IF k = 0 THEN NaN ELSE Inf(x.num * Sign(k)))
    ELSE Num(x.num * k, x.den)

\* x + k for an integer k
FAdd(x, k) ==
    IF x.kind = "num" THEN Num(x.num + k * x.den, x.den) ELSE x

\* x / k for a non-negative integer k (k = 0 is IEEE division by +0)
FDiv(x, k) ==
    IF x.kind = "nan" THEN NaN
    ELSE IF x.kind = "inf" THEN x
    ELSE IF k = 0 THEN (IF x.num = 0 THEN NaN ELSE Inf(Sign(x.num)))
    ELSE Num(x.num, x.den * k)

\* Math.round(a / b) for integers a >= 0, b > 0
RoundDiv(a, b) == (2 * a + b) \div (2 * b)

\* Math.floor(delta / 16.67) for an integer delta >= 0
ExpectedFrames(delta) == (delta * 100) \div FrameIntervalX100

\* ------------------------------------------------------------------ state
VARIABLES
    enabled, sessionStartTime, currentScreen, screens, heap, globalMetrics,
    listeners, rafQueue, imQueue, lastFrameTime, frameCount,
    droppedFrameCount, fpsHistory, currentFps, minFps, maxFps, customData,
    screensVisited, slowRenderThreshold, verySlowRenderThreshold,
    memorySpikeThreshold, targetFps,
    platformWeb,   \* Platform.OS === 'web'
    memoryCapability,  \* the memory sources the runtime offers
    provider,      \* the context-based ProfilerProvider and its session
    now,           \* Date.now()
    emitted,       \* events passed to emit() by the last operation, in order
    calls,         \* listener invocations made by the last operation
    raised,        \* the last operation threw to its caller
    lastOp,        \* the last operation and its arguments
    held           \* the value a consumer got from the last data-access call

config == <<slowRenderThreshold, verySlowRenderThreshold,
            memorySpikeThreshold, targetFps>>
session == <<enabled, sessionStartTime, currentScreen, screens, heap,
             globalMetrics, screensVisited>>
frames == <<rafQueue, imQueue, lastFrameTime, frameCount, droppedFrameCount>>
fps == <<fpsHistory, currentFps, minFps, maxFps>>
platform == <<platformWeb, memoryCapability, provider>>
vars == <<enabled, sessionStartTime, currentScreen, screens, heap,
          globalMetrics, listeners, rafQueue, imQueue, lastFrameTime,
          frameCount, droppedFrameCount, fpsHistory, currentFps, minFps,
          maxFps, customData, screensVisited, slowRenderThreshold,
          verySlowRenderThreshold, memorySpikeThreshold, targetFps,
          platformWeb, memoryCapability, provider, now,
          emitted, calls, raised, lastOp, held>>

\* ---------------------------------------------------------- memory sources
\* memoryCapability.native is the state of NazarModule.getCurrentMemoryUsage
\* ("missing": no module or no such method, "throws": the call raises,
\* "reads": it returns nativeReading); memoryCapability.heap is that of
\* performance.memory ("missing" or "present", with usedJSHeapSize)
NativeStates == {"missing", "throws", "reads"}
HeapStates == {"missing", "present"}
NativeReading == 30 * MB
HeapReadings == {0, 65 * MB}

MemoryCapabilities ==
    {c \in [native : NativeStates, nativeReading : {NativeReading},
            heap : HeapStates, usedJSHeapSize : HeapReadings] :
        c.heap = "missing" => c.usedJSHeapSize = 0}

NoCapability ==
    [native |-> "missing", nativeReading |-> NativeReading,
     heap |-> "missing", usedJSHeapSize |-> 0]

\* the native reading is returned whether or not the module is there
getCurrentMemoryUnguarded(capability) == capability.nativeReading

\* getCurrentMemory(): the native reading, else (module missing or its call
\* caught) performance.memory.usedJSHeapSize || 0, else 0
getCurrentMemory(capability) ==
    IF capability.native = "reads" THEN capability.nativeReading
    ELSE IF capability.heap = "present"
    THEN (IF capability.usedJSHeapSize # 0 THEN capability.usedJSHeapSize
          ELSE 0)
    ELSE 0

\* ------------------------------------------------------- ProfilerProvider
\* provider.arrays holds the JS arrays by object id; a session record holds
\* the ids of its screens, renders and slowRenders arrays, so that two
\* session objects that share an array are visible as such.  The fields
\* sessionId and the callbacks and console output of the config are left out.
ProviderSlowRenderThreshold == 16
ProviderMaxRenders == 100
ProviderMaxScreens == 50

\* const defaultSession = { ..., screens: [], renders: [], slowRenders: [] }
defaultSession ==
    [startTime |-> StartClock, screens |-> 1, renders |-> 2,
     slowRenders |-> 3, averageRenderTime |-> Num(0, 1),
     averageMountTime |-> Num(0, 1), slowestScreen |-> <<>>,
     totalScreenViews |-> 0]

\* the module is loaded and the provider mounted:
\* sessionRef = useRef({ ...defaultSession })
ProviderMounted ==
    [enabled |-> TRUE,
     arrays |-> <<<<>>, <<>>, <<>>>>,
     defaultSession |-> defaultSession,
     sessionRef |-> defaultSession]

RECURSIVE SumOf(_, _)
SumOf(q, field) ==
    IF q = <<>> THEN 0 ELSE Head(q)[field] + SumOf(Tail(q), field)

\* array.push(x), then shift() once the length is over the cap
pushCapped(q, x, cap) ==
    LET a == Append(q, x)
    IN  IF Len(a) > cap THEN Tail(a) ELSE a

\* sessionRef.current = { ...defaultSession, sessionId, startTime }: the
\* spread copies the references to defaultSession's three arrays
clearSession(p, t) ==
    [p EXCEPT !.sessionRef = [p.defaultSession EXCEPT !.startTime = t]]

recordScreen(p, metrics) ==
    IF ~p.enabled THEN p
    ELSE
      LET current == p.sessionRef
          list == pushCapped(p.arrays[current.screens], metrics,
                             ProviderMaxScreens)
          slowest == IF current.slowestScreen = <<>> THEN <<metrics>>
                     ELSE IF metrics.mountTime
                               > current.slowestScreen[1].mountTime
                     THEN <<metrics>>
                     ELSE current.slowestScreen
      IN  [p EXCEPT
             !.arrays[current.screens] = list,
             !.sessionRef.totalScreenViews = @ + 1,
             !.sessionRef.averageMountTime =
                 Num(SumOf(list, "mountTime"), Len(list)),
             !.sessionRef.slowestScreen = slowest]

recordRender(p, metrics) ==
    IF ~p.enabled THEN p
    ELSE
      LET current == p.sessionRef
          list == pushCapped(p.arrays[current.renders], metrics,
                             ProviderMaxRenders)
          p1 == [p EXCEPT
                   !.arrays[current.renders] = list,
                   !.sessionRef.averageRenderTime =
                       Num(SumOf(list, "actualDuration"), Len(list))]
      IN  IF metrics.actualDuration > ProviderSlowRenderThreshold
          THEN [p1 EXCEPT !.arrays[current.slowRenders] = Append(@, metrics)]
          ELSE p1

\* getSession(): sessionRef.current, its arrays read through
getSession ==
    LET current == provider.sessionRef
    IN  [current EXCEPT !.screens = provider.arrays[@],
                        !.renders = provider.arrays[@],
                        !.slowRenders = provider.arrays[@]]

\* ---------------------------------------------------------------- helpers
createEmptyGlobalMetrics ==
    [totalMounts |-> 0, totalRenders |-> 0, averageRenderTime |-> Num(0, 1),
     peakMemoryUsage |-> 0, currentMemoryUsage |-> 0,
     sessionDuration |-> Num(0, 1), averageFps |-> DefaultFps,
     slowRenders |-> 0, verySlowRenders |-> 0]

EmptyMap == [x \in {} |-> 0]

createEmptyScreenMetrics(screenName, t) ==
    [screenName |-> screenName, componentName |-> screenName,
     mountTime |-> 0, lastRenderTime |-> 0, averageRenderTime |-> 0,
     renderCount |-> 0, totalRenderTime |-> 0, memoryDelta |-> 0,
     memoryAtMount |-> 0, currentMemory |-> 0, timestamp |-> t,
     timeOnScreen |-> 0, interactionCount |-> 0, averageFps |-> DefaultFps,
     droppedFrames |-> 0, jsThreadBlockTime |-> 0,
     childComponents |-> EmptyMap]

NoHandle == [kind |-> "none"]

Op(name, args) == [name |-> name, args |-> args]

\* object ids a consumer can still reach through the value it holds
HeldRefs ==
    IF held.kind = "snapshot" THEN {held.screens[n] : n \in DOMAIN held.screens}
    ELSE IF held.kind \in {"screen", "component", "exitEvent"} THEN {held.ref}
    ELSE {}

Range(f) == {f[x] : x \in DOMAIN f}

\* objects that are unreachable are collected; `m` is the new screens map
Collect(h, m, keep) == [i \in (DOMAIN h) \cap (Range(m) \cup keep) |-> h[i]]

FreshId(h) == CHOOSE i \in ObjIds : i \notin DOMAIN h /\ \A j \in ObjIds : j < i => j \in DOMAIN h

Put(f, k, v) == [x \in (DOMAIN f) \cup {k} |-> IF x = k THEN v ELSE f[x]]

\* -------------------------------------------------------------- event bus
Throws(cb) == cb = "cbThrows"

\* index of the first subscriber that throws, 0 if none does
RECURSIVE FirstThrower(_, _)
FirstThrower(subs, i) ==
    IF i > Len(subs) THEN 0
    ELSE IF Throws(subs[i]) THEN i
    ELSE FirstThrower(subs, i + 1)

Invocation(cb, ev) == [callback |-> cb, payload |-> ev]

\* emit without the try/catch around the callback: the first exception
\* ends the forEach and propagates
DeliverNoCatch(subs, ev) ==
    LET k == FirstThrower(subs, 1)
        n == IF k = 0 THEN Len(subs) ELSE k
    IN  [calls |-> [i \in 1 .. n |-> Invocation(subs[i], ev)],
         thrown |-> k # 0]

\* listeners.get(event)?.forEach(cb => { try { cb(payload) } catch {} })
Deliver(subs, ev) ==
    [calls |-> [i \in 1 .. Len(subs) |-> Invocation(subs[i], ev)],
     thrown |-> FALSE]

\* The part of the state an operation works on, threaded through the
\* statements of a handler.
Current ==
    [cur |-> currentScreen, screens |-> screens, heap |-> heap,
     gm |-> globalMetrics, visited |-> screensVisited,
     emitted |-> <<>>, calls |-> <<>>, raised |-> FALSE]

emit(st, ev) ==
    LET r == Deliver(listeners[ev.type], ev)
    IN  [st EXCEPT !.emitted = Append(@, ev),
                   !.calls = @ \o r.calls,
                   !.raised = r.thrown]

\* ------------------------------------------------------- screen tracking
ScreenExitEvent(name, id) ==
    [type |-> "onScreenExit", screenName |-> name, metrics |-> id]

ScreenEnterEvent(name, t) ==
    [type |-> "onScreenEnter", screenName |-> name, timestamp |-> t]

SlowRenderEvent(c, d, th) ==
    [type |-> "onSlowRender", componentName |-> c, renderTime |-> d,
     threshold |-> th]

FrameDropEvent(f, n) ==
    [type |-> "onFrameDrop", fps |-> f, droppedFrames |-> n]

exitScreen(st, screenName, mem) ==
    IF ~enabled THEN st
    ELSE
      LET s1 == IF screenName \in DOMAIN st.screens
                THEN LET id == st.screens[screenName]
                         m == st.heap[id]
                         m1 == [m EXCEPT
                                  !.timeOnScreen = @ + (now - m.timestamp),
                                  !.currentMemory = mem,
                                  !.memoryDelta = mem - m.memoryAtMount]
                     IN  emit([st EXCEPT !.heap[id] = m1],
                              ScreenExitEvent(screenName, id))
                ELSE st
      IN  IF s1.raised THEN s1
          ELSE [s1 EXCEPT !.cur = IF @ = screenName THEN NullScreen ELSE @]

\* the current screen is exited even when it is the one being entered
exitsCurrentAlways(st, screenName) == st.cur # NullScreen

\* if (this.currentScreen && this.currentScreen !== screenName)
exitsCurrent(st, screenName) == st.cur # NullScreen /\ st.cur # screenName

\* a record is never found, so that every entry makes a new one
hasScreenNever(st, screenName) == FALSE

\* this.screens.has(screenName)
hasScreen(st, screenName) == screenName \in DOMAIN st.screens

\* the name is pushed on every entry
visitAlways(visited, screenName) == Append(visited, screenName)

\* if (!this.screensVisited.includes(screenName)) push(screenName)
visit(visited, screenName) ==
    IF \E i \in 1 .. Len(visited) : visited[i] = screenName
    THEN visited
    ELSE Append(visited, screenName)

enterScreen(st, screenName, memExit, memEnter) ==
    IF ~enabled THEN st
    ELSE
      LET s1 == IF exitsCurrent(st, screenName)
                THEN exitScreen(st, st.cur, memExit)
                ELSE st
          vis == visit(s1.visited, screenName)
          has == hasScreen(s1, screenName)
          id == IF has THEN s1.screens[screenName] ELSE FreshId(s1.heap)
          m == IF has THEN s1.heap[id]
               ELSE createEmptyScreenMetrics(screenName, now)
          m1 == [m EXCEPT !.timestamp = now, !.memoryAtMount = memEnter]
          s2 == [s1 EXCEPT !.cur = screenName,
                           !.visited = vis,
                           !.screens = Put(@, screenName, id),
                           !.heap = Put(@, id, m1),
                           !.gm.totalMounts = @ + 1]
      IN  IF s1.raised THEN s1
          ELSE emit(s2, ScreenEnterEvent(screenName, now))

\* ---------------------------------------------------- component tracking
\* classification with two independent tests instead of if / else if
trackRenderTimeBoth(st, componentName, renderTime) ==
    LET g == st.gm
        totalTime == FAdd(FMul(g.averageRenderTime, g.totalRenders - 1),
                          renderTime)
        s1 == [st EXCEPT !.gm.averageRenderTime =
                             FDiv(totalTime, g.totalRenders)]
        s2 == IF renderTime > verySlowRenderThreshold
              THEN emit([s1 EXCEPT !.gm.verySlowRenders = @ + 1],
                        SlowRenderEvent(componentName, renderTime,
                                        verySlowRenderThreshold))
              ELSE s1
    IN  IF renderTime > slowRenderThreshold
        THEN emit([s2 EXCEPT !.gm.slowRenders = @ + 1],
                  SlowRenderEvent(componentName, renderTime,
                                  slowRenderThreshold))
        ELSE s2

trackRenderTime(st, componentName, renderTime) ==
    LET g == st.gm
        totalTime == FAdd(FMul(g.averageRenderTime, g.totalRenders - 1),
                          renderTime)
        s1 == [st EXCEPT !.gm.averageRenderTime =
                             FDiv(totalTime, g.totalRenders)]
    IN  IF renderTime > verySlowRenderThreshold
        THEN emit([s1 EXCEPT !.gm.verySlowRenders = @ + 1],
                  SlowRenderEvent(componentName, renderTime,
                                  verySlowRenderThreshold))
        ELSE IF renderTime > slowRenderThreshold
        THEN emit([s1 EXCEPT !.gm.slowRenders = @ + 1],
                  SlowRenderEvent(componentName, renderTime,
                                  slowRenderThreshold))
        ELSE s1

\* the guard without its test of the enabled flag
AcceptedWhenDisabled(st) ==
    st.cur # NullScreen /\ st.cur \in DOMAIN st.screens

\* the call is past its two early returns
Accepted(st) ==
    enabled /\ st.cur # NullScreen /\ st.cur \in DOMAIN st.screens

\* `applied` is a history field (not in the source): the number and the sum
\* of the durations that were folded into the record.  The write-only field
\* `timestamp` of a component record is left out.
componentDidMount(st, componentName, mountTime, mem1, mem2) ==
    IF ~Accepted(st) THEN st
    ELSE
      LET id == st.screens[st.cur]
          cs == st.heap[id].childComponents
          rec == IF componentName \in DOMAIN cs
                 THEN LET e == cs[componentName]
                      IN  [e EXCEPT
                             !.mountTime = mountTime,
                             !.renderCount = @ + 1,
                             !.totalRenderTime = @ + mountTime,
                             !.averageRenderTime =
                                 Num(e.totalRenderTime + mountTime,
                                     e.renderCount + 1),
                             !.applied = [n |-> @.n + 1,
                                          sum |-> @.sum + mountTime]]
                 ELSE [componentName |-> componentName,
                       mountTime |-> mountTime,
                       lastRenderTime |-> mountTime,
                       averageRenderTime |-> Num(mountTime, 1),
                       renderCount |-> 1,
                       totalRenderTime |-> mountTime,
                       memoryDelta |-> 0,
                       memoryAtMount |-> mem1,
                       currentMemory |-> mem2,
                       applied |-> [n |-> 1, sum |-> mountTime]]
          s1 == [st EXCEPT
                   !.heap[id].childComponents = Put(@, componentName, rec),
                   !.gm.totalMounts = @ + 1]
      IN  trackRenderTime(s1, componentName, mountTime)

\* a render that leaves the stored average stale
componentDidRenderStale(st, componentName, renderTime) ==
    IF ~Accepted(st) THEN st
    ELSE
      LET id == st.screens[st.cur]
          cs == st.heap[id].childComponents
          cs1 == IF componentName \in DOMAIN cs
                 THEN [cs EXCEPT ![componentName] =
                         [@ EXCEPT !.lastRenderTime = renderTime,
                                   !.renderCount = @ + 1,
                                   !.totalRenderTime = @ + renderTime,
                                   !.applied = [n |-> @.n + 1,
                                                sum |-> @.sum + renderTime]]]
                 ELSE cs
          s1 == [st EXCEPT !.heap[id].childComponents = cs1,
                           !.gm.totalRenders = @ + 1]
      IN  trackRenderTime(s1, componentName, renderTime)

componentDidRender(st, componentName, renderTime) ==
    IF ~Accepted(st) THEN st
    ELSE
      LET id == st.screens[st.cur]
          cs == st.heap[id].childComponents
          cs1 == IF componentName \in DOMAIN cs
                 THEN LET e == cs[componentName]
                      IN  [cs EXCEPT ![componentName] =
                            [e EXCEPT
                               !.lastRenderTime = renderTime,
                               !.renderCount = @ + 1,
                               !.totalRenderTime = @ + renderTime,
                               !.averageRenderTime =
                                   Num(e.totalRenderTime + renderTime,
                                       e.renderCount + 1),
                               !.applied = [n |-> @.n + 1,
                                            sum |-> @.sum + renderTime]]]
                 ELSE cs
          s1 == [st EXCEPT !.heap[id].childComponents = cs1,
                           !.gm.totalRenders = @ + 1]
      IN  trackRenderTime(s1, componentName, renderTime)

trackInteraction(st) ==
    IF ~enabled \/ st.cur = NullScreen THEN st
    ELSE IF st.cur \in DOMAIN st.screens
    THEN [st EXCEPT !.heap[st.screens[st.cur]].interactionCount = @ + 1]
    ELSE st

\* ------------------------------------------------------ JS thread blocking
JankEvent(blockTime, source) ==
    [type |-> "onJank", blockTime |-> blockTime, source |-> source]

trackJsBlock(st, blockTime, source) ==
    IF ~enabled THEN st
    ELSE
      LET s1 == IF st.cur # NullScreen /\ st.cur \in DOMAIN st.screens
                THEN [st EXCEPT !.heap[st.screens[st.cur]].jsThreadBlockTime =
                                    @ + blockTime]
                ELSE st
      IN  IF blockTime > JankThreshold
          THEN emit(s1, JankEvent(blockTime, source))
          ELSE s1

\* ---------------------------------------------------------- memory sampler
MemorySpikeEvent(delta, current, threshold) ==
    [type |-> "onMemorySpike", delta |-> delta, current |-> current,
     threshold |-> threshold]

\* the latest reading overwrites the peak as well
checkMemorySpikeNoPeak(st, current) ==
    LET delta == current - st.gm.currentMemoryUsage
        s1 == IF delta > memorySpikeThreshold
              THEN emit(st, MemorySpikeEvent(delta, current,
                                             memorySpikeThreshold))
              ELSE st
    IN  [s1 EXCEPT !.gm.peakMemoryUsage = current,
                   !.gm.currentMemoryUsage = current]

\* the rise is measured from zero instead of from the previous reading
checkMemorySpikeFromZero(st, current) ==
    LET delta == current
        s1 == IF delta > memorySpikeThreshold
              THEN emit(st, MemorySpikeEvent(delta, current,
                                             memorySpikeThreshold))
              ELSE st
        s2 == IF current > s1.gm.peakMemoryUsage
              THEN [s1 EXCEPT !.gm.peakMemoryUsage = current]
              ELSE s1
    IN  [s2 EXCEPT !.gm.currentMemoryUsage = current]

\* private and without a call site in the repository; it has no test of
\* the enabled flag
checkMemorySpike(st, current) ==
    LET delta == current - st.gm.currentMemoryUsage
        s1 == IF delta > memorySpikeThreshold
              THEN emit(st, MemorySpikeEvent(delta, current,
                                             memorySpikeThreshold))
              ELSE st
        s2 == IF current > s1.gm.peakMemoryUsage
              THEN [s1 EXCEPT !.gm.peakMemoryUsage = current]
              ELSE s1
    IN  [s2 EXCEPT !.gm.currentMemoryUsage = current]

\* write the result of a handler back to the fields of the profiler
Commit(st) ==
    /\ currentScreen' = st.cur
    /\ screens' = st.screens
    /\ heap' = Collect(st.heap, st.screens, HeldRefs)
    /\ globalMetrics' = st.gm
    /\ screensVisited' = st.visited
    /\ emitted' = st.emitted
    /\ calls' = st.calls
    /\ raised' = st.raised

\* ------------------------------------------------------------ data access
\* getSnapshot(): new Map(this.screens) copies the Map, not the records in
\* it; {...globalMetrics} copies the (flat) global metrics
SnapshotOf(st) ==
    [kind |-> "snapshot", currentScreen |-> st.cur, screens |-> st.screens,
     globalMetrics |-> st.gm]

\* what a consumer reads through a value it holds
View(h, hv) ==
    IF hv.kind = "snapshot"
    THEN [currentScreen |-> hv.currentScreen,
          screens |-> [n \in DOMAIN hv.screens |-> h[hv.screens[n]]],
          globalMetrics |-> hv.globalMetrics]
    ELSE IF hv.kind \in {"screen", "exitEvent"} THEN [metrics |-> h[hv.ref]]
    ELSE IF hv.kind = "component"
    THEN [metrics |-> h[hv.ref].childComponents[hv.comp]]
    ELSE [metrics |-> 0]

getSnapshot(st) ==
    [st EXCEPT !.gm.sessionDuration = Num(now - sessionStartTime, 1000)]

Hold(hv, h) == hv @@ [seen |-> View(h, hv)]

\* ------------------------------------------------------------------- Init
Init ==
    /\ enabled = FALSE
    /\ sessionStartTime = 0
    /\ currentScreen = NullScreen
    /\ screens = EmptyMap
    /\ heap = EmptyMap
    /\ globalMetrics = createEmptyGlobalMetrics
    /\ listeners = [t \in EventTypes |-> <<>>]
    /\ rafQueue = 0
    /\ imQueue = 0
    /\ lastFrameTime = 0
    /\ frameCount = 0
    /\ droppedFrameCount = 0
    /\ fpsHistory = <<>>
    /\ currentFps = DefaultFps
    /\ minFps = DefaultFps
    /\ maxFps = DefaultFps
    /\ customData = EmptyMap
    /\ screensVisited = <<>>
    /\ slowRenderThreshold = DefaultSlowRenderThreshold
    /\ verySlowRenderThreshold = DefaultVerySlowRenderThreshold
    /\ memorySpikeThreshold = DefaultMemorySpikeThreshold
    /\ targetFps = DefaultFps
    /\ platformWeb \in BOOLEAN
    /\ memoryCapability = NoCapability
    /\ provider = ProviderMounted
    /\ now = StartClock
    /\ emitted = <<>>
    /\ calls = <<>>
    /\ raised = FALSE
    /\ lastOp = Op("new", <<>>)
    /\ held = NoHandle

Quiet == emitted' = <<>> /\ calls' = <<>> /\ raised' = FALSE

\* -------------------------------------------------------------- lifecycle
startFrameTracking ==
    IF platformWeb
    THEN UNCHANGED frames
    ELSE /\ lastFrameTime' = now
         /\ frameCount' = 0
         /\ droppedFrameCount' = 0
         /\ rafQueue' = rafQueue + 1
         /\ UNCHANGED imQueue

\* start() without its test of the enabled flag
StartRestarts ==
    /\ platformWeb \/ rafQueue + imQueue < MaxLoops
    /\ lastOp' = Op("start", <<>>)
    /\ Quiet
    /\ enabled' = TRUE
    /\ sessionStartTime' = now
    /\ globalMetrics' = createEmptyGlobalMetrics
    /\ screens' = EmptyMap
    /\ heap' = Collect(heap, EmptyMap, HeldRefs)
    /\ startFrameTracking
    /\ UNCHANGED <<currentScreen, screensVisited>>
    /\ UNCHANGED <<listeners, fps, customData, config, platform, now, held>>

Start ==
    /\ enabled \/ platformWeb \/ rafQueue + imQueue < MaxLoops
    /\ lastOp' = Op("start", <<>>)
    /\ Quiet
    /\ IF enabled
       THEN UNCHANGED <<session, frames>>
       ELSE /\ enabled' = TRUE
            /\ sessionStartTime' = now
            /\ globalMetrics' = createEmptyGlobalMetrics
            /\ screens' = EmptyMap
            /\ heap' = Collect(heap, EmptyMap, HeldRefs)
            /\ startFrameTracking
            /\ UNCHANGED <<currentScreen, screensVisited>>
    /\ UNCHANGED <<listeners, fps, customData, config, platform, now, held>>

\* stopFrameTracking() has an empty body
Stop(keep) ==
    LET st == getSnapshot(Current)
    IN  /\ lastOp' = Op("stop", <<>>)
        /\ Quiet
        /\ enabled' = FALSE
        /\ globalMetrics' = st.gm
        /\ held' = IF keep THEN Hold(SnapshotOf(st), heap) ELSE held
        /\ heap' = Collect(heap, screens, IF keep THEN Range(screens) ELSE HeldRefs)
        /\ UNCHANGED <<sessionStartTime, currentScreen, screens, screensVisited,
                       listeners, frames, fps, customData, config, platform,
                       now>>

\* an option that is left out clears the threshold
configuredOrCleared(options, k, current) ==
    IF k \in DOMAIN options THEN options[k] ELSE 0

\* options are taken only while the session is enabled
configuredWhenEnabled(options, k, current) ==
    IF enabled /\ k \in DOMAIN options THEN options[k] ELSE current

\* if (options.k !== undefined) this.k = options.k
configured(options, k, current) ==
    IF k \in DOMAIN options THEN options[k] ELSE current

Configure(options) ==
    /\ lastOp' = Op("configure", <<options>>)
    /\ Quiet
    /\ slowRenderThreshold' =
         configured(options, "slowRenderThreshold", slowRenderThreshold)
    /\ verySlowRenderThreshold' =
         configured(options, "verySlowRenderThreshold",
                    verySlowRenderThreshold)
    /\ memorySpikeThreshold' =
         configured(options, "memorySpikeThreshold", memorySpikeThreshold)
    /\ UNCHANGED <<session, listeners, frames, fps, customData, targetFps,
                   platform, now, held>>

OptionValues(k) ==
    IF k = "slowRenderThreshold" THEN SlowThresholdChoices
    ELSE IF k = "verySlowRenderThreshold" THEN VerySlowThresholdChoices
    ELSE MemorySpikeChoices

ConfigureOptions ==
    UNION {{o \in [ks -> SlowThresholdChoices \cup VerySlowThresholdChoices
                           \cup MemorySpikeChoices] :
              \A k \in ks : o[k] \in OptionValues(k)} : ks \in SUBSET OptionNames}

\* reset() that, like start(), leaves currentScreen alone
ResetKeepsScreen ==
    /\ lastOp' = Op("reset", <<Cardinality(DOMAIN screens), Len(fpsHistory),
                               Cardinality(DOMAIN customData)>>)
    /\ Quiet
    /\ screens' = EmptyMap
    /\ heap' = Collect(heap, EmptyMap, HeldRefs)
    /\ globalMetrics' = createEmptyGlobalMetrics
    /\ sessionStartTime' = now
    /\ frameCount' = 0
    /\ droppedFrameCount' = 0
    /\ fpsHistory' = <<>>
    /\ currentFps' = DefaultFps
    /\ minFps' = DefaultFps
    /\ maxFps' = DefaultFps
    /\ customData' = EmptyMap
    /\ screensVisited' = <<>>
    /\ UNCHANGED <<currentScreen, enabled, listeners, rafQueue, imQueue,
                   lastFrameTime, config, platform, now, held>>

\* reset() that also ends the session
ResetDisables ==
    /\ lastOp' = Op("reset", <<Cardinality(DOMAIN screens), Len(fpsHistory),
                               Cardinality(DOMAIN customData)>>)
    /\ Quiet
    /\ enabled' = FALSE
    /\ screens' = EmptyMap
    /\ heap' = Collect(heap, EmptyMap, HeldRefs)
    /\ currentScreen' = NullScreen
    /\ globalMetrics' = createEmptyGlobalMetrics
    /\ sessionStartTime' = now
    /\ frameCount' = 0
    /\ droppedFrameCount' = 0
    /\ fpsHistory' = <<>>
    /\ currentFps' = DefaultFps
    /\ minFps' = DefaultFps
    /\ maxFps' = DefaultFps
    /\ customData' = EmptyMap
    /\ screensVisited' = <<>>
    /\ UNCHANGED <<listeners, rafQueue, imQueue, lastFrameTime, config,
                   platform, now, held>>

\* the arguments logged for reset are history: the number of screen records,
\* FPS samples and custom keys it found
Reset ==
    /\ lastOp' = Op("reset", <<Cardinality(DOMAIN screens), Len(fpsHistory),
                               Cardinality(DOMAIN customData)>>)
    /\ Quiet
    /\ screens' = EmptyMap
    /\ heap' = Collect(heap, EmptyMap, HeldRefs)
    /\ currentScreen' = NullScreen
    /\ globalMetrics' = createEmptyGlobalMetrics
    /\ sessionStartTime' = now
    /\ frameCount' = 0
    /\ droppedFrameCount' = 0
    /\ fpsHistory' = <<>>
    /\ currentFps' = DefaultFps
    /\ minFps' = DefaultFps
    /\ maxFps' = DefaultFps
    /\ customData' = EmptyMap
    /\ screensVisited' = <<>>
    /\ UNCHANGED <<enabled, listeners, rafQueue, imQueue, lastFrameTime, config,
                   platform, now, held>>

\* ------------------------------------------------------ public operations
Others == <<enabled, sessionStartTime, listeners, frames, fps, customData,
            config, platform, now>>

\* exitScreen(name) would not push timeOnScreen over the cap
ExitFits(screenName) ==
    IF enabled /\ screenName \in DOMAIN screens
    THEN LET m == heap[screens[screenName]]
         IN  m.timeOnScreen + (now - m.timestamp) <= MaxScreenTime
    ELSE TRUE

EnterScreen(screenName, memExit, memEnter) ==
    /\ ~enabled \/ globalMetrics.totalMounts < MaxMounts
    /\ ExitFits(currentScreen)
    /\ lastOp' = Op("enterScreen", <<screenName, currentScreen>>)
    /\ Commit(enterScreen(Current, screenName, memExit, memEnter))
    /\ UNCHANGED <<Others, held>>

ExitScreen(screenName, mem, keep) ==
    LET st == exitScreen(Current, screenName, mem)
        got == keep /\ st.calls # <<>>
    IN  /\ ExitFits(screenName)
        /\ lastOp' = Op("exitScreen", <<screenName>>)
        /\ held' = IF got
                   THEN Hold([kind |-> "exitEvent",
                              ref |-> st.emitted[1].metrics], st.heap)
                   ELSE held
        /\ currentScreen' = st.cur
        /\ screens' = st.screens
        /\ heap' = Collect(st.heap, st.screens,
                           IF got THEN {st.emitted[1].metrics} ELSE HeldRefs)
        /\ emitted' = st.emitted
        /\ calls' = st.calls
        /\ raised' = st.raised
        /\ UNCHANGED <<globalMetrics, screensVisited, Others>>

ComponentDidMount(componentName, mountTime, mem1, mem2) ==
    /\ ~Accepted(Current) \/ globalMetrics.totalMounts < MaxMounts
    /\ lastOp' = Op("componentDidMount", <<componentName, mountTime>>)
    /\ Commit(componentDidMount(Current, componentName, mountTime, mem1, mem2))
    /\ UNCHANGED <<Others, held>>

ComponentDidRender(componentName, renderTime) ==
    /\ ~Accepted(Current) \/ globalMetrics.totalRenders < MaxRenders
    /\ lastOp' = Op("componentDidRender", <<componentName, renderTime>>)
    /\ Commit(componentDidRender(Current, componentName, renderTime))
    /\ UNCHANGED <<Others, held>>

TrackInteraction ==
    /\ IF Accepted(Current)
       THEN heap[screens[currentScreen]].interactionCount < MaxInteractions
       ELSE TRUE
    /\ lastOp' = Op("trackInteraction", <<>>)
    /\ Commit(trackInteraction(Current))
    /\ UNCHANGED <<Others, held>>

TrackJsBlock(blockTime, source) ==
    /\ IF Accepted(Current)
       THEN heap[screens[currentScreen]].jsThreadBlockTime + blockTime
              <= MaxBlockTime
       ELSE TRUE
    /\ lastOp' = Op("trackJsBlock", <<blockTime, source>>)
    /\ Commit(trackJsBlock(Current, blockTime, source))
    /\ UNCHANGED <<Others, held>>

CheckMemorySpike(current) ==
    /\ lastOp' = Op("checkMemorySpike", <<current>>)
    /\ Commit(checkMemorySpike(Current, current))
    /\ UNCHANGED <<Others, held>>

\* the host clock advances between two callbacks
Tick(dt) ==
    /\ now + dt <= StartClock + MaxElapsed
    /\ now' = now + dt
    /\ lastOp' = Op("tick", <<dt>>)
    /\ Quiet
    /\ UNCHANGED <<session, listeners, frames, fps, customData, config,
                   platform, held>>

\* ------------------------------------------------------- frame sampling
\* one run of the trackFrame closure that requestAnimationFrame scheduled
RunFrameCallback ==
    LET delta == now - lastFrameTime
        counted == delta > 0
        fc == IF counted THEN frameCount + 1 ELSE frameCount
        expectedFrames == ExpectedFrames(delta)
        drop == counted /\ expectedFrames > 1
        st0 == Current
        hasRec == st0.cur # NullScreen /\ st0.cur \in DOMAIN st0.screens
        id == st0.screens[st0.cur]
        s1 == IF drop /\ hasRec
              THEN [st0 EXCEPT !.heap[id].droppedFrames = @ + expectedFrames - 1]
              ELSE st0
        s2 == IF drop
              THEN emit(s1, FrameDropEvent(RoundDiv(1000, delta),
                                           expectedFrames - 1))
              ELSE s1
        s3 == IF counted /\ now - sessionStartTime > 0
              THEN [s2 EXCEPT !.gm.averageFps =
                                  RoundDiv(fc * 1000, now - sessionStartTime)]
              ELSE s2
        s4 == IF counted /\ hasRec
              THEN LET m == s3.heap[id]
                   IN  IF m.timeOnScreen > 0
                       THEN [s3 EXCEPT !.heap[id].averageFps =
                               RoundDiv(fc * 1000,
                                        now - m.timestamp + m.timeOnScreen)]
                       ELSE s3
              ELSE s3
    IN  /\ rafQueue > 0
        /\ enabled /\ counted => frameCount < MaxFrames
        /\ lastOp' = Op("trackFrame", <<>>)
        /\ IF ~enabled
           THEN /\ rafQueue' = rafQueue - 1
                /\ Quiet
                /\ UNCHANGED <<session, imQueue, lastFrameTime, frameCount,
                               droppedFrameCount>>
           ELSE /\ frameCount' = fc
                /\ droppedFrameCount' =
                     IF drop THEN droppedFrameCount + expectedFrames - 1
                     ELSE droppedFrameCount
                /\ rafQueue' = rafQueue - 1
                /\ IF s2.raised
                   THEN Commit(s2) /\ UNCHANGED <<lastFrameTime, imQueue>>
                   ELSE /\ Commit(s4)
                        /\ lastFrameTime' = now
                        /\ imQueue' = imQueue + 1
                /\ UNCHANGED <<enabled, sessionStartTime>>
        /\ UNCHANGED <<listeners, fps, customData, config, platform, now,
                       held>>

\* a loop that goes on rescheduling itself after stop()
RescheduleAlways == rafQueue + 1

\* if (this.enabled) requestAnimationFrame(trackFrame)
Reschedule == IF enabled THEN rafQueue + 1 ELSE rafQueue

\* the callback handed to InteractionManager.runAfterInteractions
RunAfterInteractions ==
    /\ imQueue > 0
    /\ lastOp' = Op("afterInteractions", <<>>)
    /\ Quiet
    /\ imQueue' = imQueue - 1
    /\ rafQueue' = Reschedule
    /\ UNCHANGED <<session, lastFrameTime, frameCount, droppedFrameCount,
                   listeners, fps, customData, config, platform, now, held>>

\* -------------------------------------------------------- subscriptions
Member(q, x) == \E i \in 1 .. Len(q) : q[i] = x

\* delete() that empties the whole Set of the event type
WithoutAny(q, x) == <<>>

\* Set.delete(x)
Without(q, x) == SelectSeq(q, LAMBDA y : y # x)

On(event, callback) ==
    /\ lastOp' = Op("on", <<event, callback>>)
    /\ Quiet
    /\ listeners' = [listeners EXCEPT ![event] =
                       IF Member(@, callback) THEN @ ELSE Append(@, callback)]
    /\ UNCHANGED <<session, frames, fps, customData, config, platform, now,
                   held>>

Off(event, callback) ==
    /\ lastOp' = Op("off", <<event, callback>>)
    /\ Quiet
    /\ listeners' = [listeners EXCEPT ![event] = Without(@, callback)]
    /\ UNCHANGED <<session, frames, fps, customData, config, platform, now,
                   held>>

\* on() whose caller keeps the function it returns
OnKeep(event, callback) ==
    /\ lastOp' = Op("on", <<event, callback>>)
    /\ Quiet
    /\ listeners' = [listeners EXCEPT ![event] =
                       IF Member(@, callback) THEN @ ELSE Append(@, callback)]
    /\ held' = [kind |-> "unsubscribe", event |-> event,
                callback |-> callback]
    /\ UNCHANGED <<session, frames, fps, customData, config, platform, now>>

\* a call of the function that on() returned
Unsubscribe ==
    /\ held.kind = "unsubscribe"
    /\ lastOp' = Op("unsubscribe", <<held.event, held.callback>>)
    /\ Quiet
    /\ listeners' = [listeners EXCEPT ![held.event] =
                       Without(@, held.callback)]
    /\ UNCHANGED <<session, frames, fps, customData, config, platform, now,
                   held>>

\* ------------------------------------------------- FPS history, custom data
\* a full history loses its newest entry instead of its oldest
pushFpsKeepsOldest(history, v) ==
    LET h == Append(history, v)
    IN  IF Len(h) > FpsHistoryCap THEN SubSeq(h, 1, FpsHistoryCap) ELSE h

\* fpsHistory.push(fps), then shift() once the length is over the cap
pushFps(history, v) ==
    LET h == Append(history, v)
    IN  IF Len(h) > FpsHistoryCap THEN Tail(h) ELSE h

RecordFps(v) ==
    /\ lastOp' = Op("recordFps", <<v>>)
    /\ Quiet
    /\ currentFps' = v
    /\ minFps' = IF v < minFps THEN v ELSE minFps
    /\ maxFps' = IF v > maxFps THEN v ELSE maxFps
    /\ fpsHistory' = pushFps(fpsHistory, v)
    /\ UNCHANGED <<session, listeners, frames, customData, config, platform,
                   now, held>>

SetTargetFps(v) ==
    /\ lastOp' = Op("setTargetFps", <<v>>)
    /\ Quiet
    /\ targetFps' = v
    /\ UNCHANGED <<session, listeners, frames, fps, customData,
                   slowRenderThreshold, verySlowRenderThreshold,
                   memorySpikeThreshold, platform, now, held>>

SetCustomData(key, value) ==
    /\ lastOp' = Op("setCustomData", <<key, value>>)
    /\ Quiet
    /\ customData' = Put(customData, key, value)
    /\ UNCHANGED <<session, listeners, frames, fps, config, platform, now,
                   held>>

\* `if (key)` is false for undefined and for the empty string
ClearCustomData(key) ==
    /\ lastOp' = Op("clearCustomData", <<key>>)
    /\ Quiet
    /\ customData' = IF key # Undefined /\ key # ""
                     THEN [k \in (DOMAIN customData) \ {key} |-> customData[k]]
                     ELSE EmptyMap
    /\ UNCHANGED <<session, listeners, frames, fps, config, platform, now,
                   held>>

\* an entry of an issues list: its text and the number printed in it
Issue(what, value) == [issue |-> what, value |-> value]

\* the thresholds of getHealthStatus, each moved up by one
getHealthStatusAbove(score) ==
    IF score > 80 THEN "excellent"
    ELSE IF score > 60 THEN "good"
    ELSE IF score > 40 THEN "fair"
    ELSE "poor"

getHealthStatus(score) ==
    IF score >= 80 THEN "excellent"
    ELSE IF score >= 60 THEN "good"
    ELSE IF score >= 40 THEN "fair"
    ELSE "poor"

\* the health score without the else between its two FPS tests
healthBothFpsTiers(fpsNow, slow, verySlow, memory) ==
    LET p1 == (IF fpsNow < 50 THEN 30 ELSE 0) + (IF fpsNow < 55 THEN 15 ELSE 0)
        p2 == IF slow > 10 THEN 20 ELSE 0
        p3 == IF verySlow > 0 THEN 25 ELSE 0
        p4 == IF memory > 200 * MB THEN 20
              ELSE IF memory > 100 * MB THEN 10 ELSE 0
        score == 100 - p1 - p2 - p3 - p4
    IN  [score |-> IF score < 0 THEN 0 ELSE score, issues |-> <<>>]

\* the health score and issues that getProfilerData() computes from the
\* current FPS, the slow and very slow render counts and the current memory
health(fpsNow, slow, verySlow, memory) ==
    LET low == fpsNow < 50
        slightly == ~low /\ fpsNow < 55
        p1 == IF low THEN 30 ELSE IF slightly THEN 15 ELSE 0
        i1 == IF low THEN <<Issue("Low FPS detected", 0)>>
              ELSE IF slightly THEN <<Issue("Slightly low FPS", 0)>> ELSE <<>>
        p2 == IF slow > 10 THEN 20 ELSE 0
        i2 == IF slow > 10 THEN <<Issue("slow renders", slow)>> ELSE <<>>
        p3 == IF verySlow > 0 THEN 25 ELSE 0
        i3 == IF verySlow > 0 THEN <<Issue("very slow renders", verySlow)>>
              ELSE <<>>
        high == memory > 200 * MB
        elevated == ~high /\ memory > 100 * MB
        p4 == IF high THEN 20 ELSE IF elevated THEN 10 ELSE 0
        i4 == IF high THEN <<Issue("High memory usage", 0)>>
              ELSE IF elevated THEN <<Issue("Elevated memory usage", 0)>> ELSE <<>>
        score == 100 - p1 - p2 - p3 - p4
    IN  [score |-> IF score < 0 THEN 0 ELSE score,
         issues |-> i1 \o i2 \o i3 \o i4]

\* Math.round(x): the integer nearest to x, halves going up
MathRound(x) ==
    IF x.kind = "num" THEN Num((2 * x.num + x.den) \div (2 * x.den), 1) ELSE x

\* Math.min(k, x) for an integer k: NaN if x is NaN
MathMin(k, x) ==
    IF x.kind = "nan" THEN NaN
    ELSE IF x.kind = "inf" THEN (IF x.num > 0 THEN Num(k, 1) ELSE x)
    ELSE IF x.num > k * x.den THEN Num(k, 1) ELSE x

\* Math.min(100, Math.round((currentFps / targetFps) * 100))
fpsScore(current, target) ==
    MathMin(100, MathRound(FMul(FDiv(Num(current, 1), target), 100)))

\* memory: { current, peak, delta: peak - current } of getProfilerData()
memoryData ==
    [current |-> globalMetrics.currentMemoryUsage,
     peak |-> globalMetrics.peakMemoryUsage,
     delta |-> globalMetrics.peakMemoryUsage
                 - globalMetrics.currentMemoryUsage]

\* navigation: { totalScreenViews, screensVisited: [...this.screensVisited] }
navigation == [totalScreenViews |-> globalMetrics.totalMounts,
               screensVisited |-> screensVisited]

\* the fields of getProfilerData() that depend on session state; the
\* component list is given as a Map (its order is that of insertion)
ProfilerData ==
    LET has == currentScreen # NullScreen /\ currentScreen \in DOMAIN screens
        cs == IF has THEN heap[screens[currentScreen]].childComponents
              ELSE EmptyMap
    IN  [isRunning |-> enabled,
         renders |-> [total |-> globalMetrics.totalRenders,
                      slow |-> globalMetrics.slowRenders,
                      verySlow |-> globalMetrics.verySlowRenders],
         screen |-> [name |-> IF currentScreen # NullScreen
                              THEN currentScreen ELSE "--"],
         components |->
             [c \in DOMAIN cs |->
                 [renderCount |-> cs[c].renderCount,
                  averageRenderTime |-> cs[c].averageRenderTime,
                  lastRenderTime |-> cs[c].lastRenderTime]],
         fps |-> [current |-> currentFps, target |-> targetFps,
                  score |-> fpsScore(currentFps, targetFps)],
         fpsHistory |-> fpsHistory,
         memory |-> memoryData,
         navigation |-> navigation,
         health |->
             LET h == health(currentFps, globalMetrics.slowRenders,
                             globalMetrics.verySlowRenders,
                             globalMetrics.currentMemoryUsage)
             IN  [score |-> h.score, status |-> getHealthStatus(h.score),
                  issues |-> h.issues],
         customData |-> customData]

\* x > k for a number x and an integer k (false for NaN, as in JS)
FGreater(x, k) ==
    IF x.kind = "nan" THEN FALSE
    ELSE IF x.kind = "inf" THEN x.num > 0
    ELSE x.num > k * x.den

NoSummary == [isNull |-> TRUE]

\* issues.push(`${slowComponents.length} slow component(s)`)
SlowIssues(n) == IF n > 0 THEN <<Issue("slowComponents", n)>> ELSE <<>>

\* getCurrentScreenSummary(); an issue is given by its kind and the number
\* printed in it (memory in tenths of a MB, as toFixed(1) prints it)
getCurrentScreenSummary ==
    IF currentScreen = NullScreen THEN NoSummary
    ELSE IF currentScreen \notin DOMAIN screens THEN NoSummary
    ELSE
      LET metrics == heap[screens[currentScreen]]
          cs == metrics.childComponents
          slowComponents ==
              {c \in DOMAIN cs :
                   FGreater(cs[c].averageRenderTime, slowRenderThreshold)}
          n == Cardinality(slowComponents)
          i1 == SlowIssues(n)
          p1 == n * 10
          low == metrics.averageFps < 50
          slightly == ~low /\ metrics.averageFps < 55
          i2 == IF low THEN <<Issue("lowFps", metrics.averageFps)>>
                ELSE IF slightly
                THEN <<Issue("slightlyLowFps", metrics.averageFps)>>
                ELSE <<>>
          p2 == IF low THEN 20 ELSE IF slightly THEN 10 ELSE 0
          high == metrics.memoryDelta > 50 * MB
          moderate == ~high /\ metrics.memoryDelta > 20 * MB
          tenths == RoundDiv(metrics.memoryDelta * 10, MB)
          i3 == IF high THEN <<Issue("highMemory", tenths)>>
                ELSE IF moderate THEN <<Issue("moderateMemory", tenths)>>
                ELSE <<>>
          p3 == IF high THEN 20 ELSE IF moderate THEN 10 ELSE 0
          dropped == metrics.droppedFrames > 10
          i4 == IF dropped
                THEN <<Issue("droppedFrames", metrics.droppedFrames)>>
                ELSE <<>>
          p4 == IF dropped THEN 15 ELSE 0
          blocked == metrics.jsThreadBlockTime > 500
          i5 == IF blocked
                THEN <<Issue("jsBlocked", metrics.jsThreadBlockTime)>>
                ELSE <<>>
          p5 == IF blocked THEN 15 ELSE 0
          score == 100 - p1 - p2 - p3 - p4 - p5
      IN  [isNull |-> FALSE,
           screenName |-> metrics.screenName,
           score |-> IF score < 0 THEN 0 ELSE score,
           issues |-> i1 \o i2 \o i3 \o i4 \o i5,
           metrics |-> [renderTime |-> metrics.averageRenderTime,
                        fps |-> metrics.averageFps,
                        memoryImpact |-> metrics.memoryDelta,
                        componentCount |-> Cardinality(DOMAIN cs)]]

\* --------------------------------------------------- consumers of the data
GetSnapshot ==
    LET st == getSnapshot(Current)
    IN  /\ lastOp' = Op("getSnapshot", <<>>)
        /\ Quiet
        /\ globalMetrics' = st.gm
        /\ held' = Hold(SnapshotOf(st), heap)
        /\ heap' = Collect(heap, screens, Range(screens))
        /\ UNCHANGED <<enabled, sessionStartTime, currentScreen, screens,
                       screensVisited, listeners, frames, fps, customData,
                       config, platform, now>>

GetScreenMetrics(screenName) ==
    /\ lastOp' = Op("getScreenMetrics", <<screenName>>)
    /\ Quiet
    /\ held' = IF screenName \in DOMAIN screens
               THEN Hold([kind |-> "screen", ref |-> screens[screenName]], heap)
               ELSE NoHandle
    /\ heap' = Collect(heap, screens, {})
    /\ UNCHANGED <<enabled, sessionStartTime, currentScreen, screens,
                   globalMetrics, screensVisited, listeners, frames, fps,
                   customData, config, platform, now>>

GetComponentMetrics(componentName) ==
    LET has == /\ currentScreen # NullScreen
               /\ currentScreen \in DOMAIN screens
               /\ componentName \in
                    DOMAIN heap[screens[currentScreen]].childComponents
    IN  /\ lastOp' = Op("getComponentMetrics", <<componentName>>)
        /\ Quiet
        /\ held' = IF has
                   THEN Hold([kind |-> "component",
                              ref |-> screens[currentScreen],
                              comp |-> componentName], heap)
                   ELSE NoHandle
        /\ heap' = Collect(heap, screens, {})
        /\ UNCHANGED <<enabled, sessionStartTime, currentScreen, screens,
                       globalMetrics, screensVisited, listeners, frames, fps,
                       customData, config, platform, now>>

\* a consumer assigns to a field of the record it was handed
\* (for a snapshot: of a record in its screens Map)
ConsumerWrite ==
    /\ held.kind # "none"
    /\ lastOp' = Op("consumerWrite", <<>>)
    /\ Quiet
    /\ \E id \in HeldRefs :
          heap' = IF held.kind = "component"
                  THEN [heap EXCEPT ![id].childComponents[held.comp].renderCount
                                       = 0]
                  ELSE [heap EXCEPT ![id].interactionCount = 0]
    /\ UNCHANGED <<enabled, sessionStartTime, currentScreen, screens,
                   globalMetrics, screensVisited, listeners, frames, fps,
                   customData, config, platform, now, held>>

\* --------------------------------------------------------- specifications
Lifecycle ==
    \/ Start
    \/ Stop(FALSE)
    \/ Reset

Screens ==
    \/ \E n \in ScreenNames, m1, m2 \in NoMemory : EnterScreen(n, m1, m2)
    \/ \E n \in ScreenNames, m \in NoMemory : ExitScreen(n, m, FALSE)

Components(ds) ==
    \/ \E c \in ComponentNames, d \in ds, m1, m2 \in NoMemory :
          ComponentDidMount(c, d, m1, m2)
    \/ \E c \in ComponentNames, d \in ds : ComponentDidRender(c, d)

\* session, screens and components
Next ==
    \/ Lifecycle
    \/ Screens
    \/ Components(FastDurations)

Spec == Init /\ [][Next]_vars

\* mounts, renders and interactions in every session state
NextDiscard ==
    \/ Lifecycle
    \/ Screens
    \/ Components({25})
    \/ TrackInteraction

SpecDiscard == Init /\ [][NextDiscard]_vars

\* render classification under reconfigured thresholds
NextClassify ==
    \/ Start
    \/ \E o \in ConfigureOptions : Configure(o)
    \/ \E n \in ScreenNames, m1, m2 \in NoMemory : EnterScreen(n, m1, m2)
    \/ Components(Durations)

SpecClassify == Init /\ [][NextClassify]_vars

\* screen lifecycle against the clock
NextScreens ==
    \/ Lifecycle
    \/ Screens
    \/ \E dt \in LongSteps : Tick(dt)

SpecScreens == Init /\ [][NextScreens]_vars

\* the frame-sampling loop under start / stop / reset
NextFrames ==
    \/ Lifecycle
    \/ \E n \in OneScreen, m1, m2 \in NoMemory : EnterScreen(n, m1, m2)
    \/ \E dt \in TimeSteps : Tick(dt)
    \/ RunFrameCallback
    \/ RunAfterInteractions

SpecFrames == Init /\ [][NextFrames]_vars

\* the host runs every callback handed to requestAnimationFrame and to
\* InteractionManager.runAfterInteractions
SpecFramesFair ==
    SpecFrames /\ WF_vars(RunFrameCallback) /\ WF_vars(RunAfterInteractions)

\* subscribers, some of which throw
NextBus ==
    \/ \E e \in BusEvents, cb \in Callbacks : On(e, cb)
    \/ \E e \in BusEvents, cb \in Callbacks : Off(e, cb)
    \/ Start
    \/ Screens
    \/ \E c \in ComponentNames, d \in {25} : ComponentDidRender(c, d)

SpecBus == Init /\ [][NextBus]_vars

\* subscriptions made, dropped by off() and by the returned function while
\* screen events are emitted
SubsEvents == {"onScreenEnter", "onScreenExit"}

NextSubs ==
    \/ \E e \in SubsEvents, cb \in Callbacks : On(e, cb)
    \/ \E e \in SubsEvents, cb \in Callbacks : OnKeep(e, cb)
    \/ \E e \in SubsEvents, cb \in Callbacks : Off(e, cb)
    \/ Unsubscribe
    \/ Start
    \/ \E n \in OneScreen, m1, m2 \in NoMemory : EnterScreen(n, m1, m2)
    \/ \E n \in OneScreen, m \in NoMemory : ExitScreen(n, m, FALSE)

SpecSubs == Init /\ [][NextSubs]_vars

\* what the summary of the current screen is computed from: component
\* averages, the screen's frame rate, memory delta and blocked time
ExitReadings == {0, 30 * MB, 65 * MB}
BlockTimes == {600}

NextSummary ==
    \/ Start
    \/ Stop(FALSE)
    \/ \E n \in OneScreen, m1, m2 \in NoMemory : EnterScreen(n, m1, m2)
    \/ \E n \in OneScreen, m \in ExitReadings : ExitScreen(n, m, FALSE)
    \/ \E c \in ComponentNames, m1, m2 \in NoMemory :
           ComponentDidMount(c, 25, m1, m2)
    \/ \E b \in BlockTimes : TrackJsBlock(b, "timer")
    \/ \E dt \in LongSteps : Tick(dt)
    \/ RunFrameCallback
    \/ RunAfterInteractions

SpecSummary == Init /\ [][NextSummary]_vars

\* a session that has seen many renders: the state after start(),
\* enterScreen("Home"), componentDidMount("Header", 25), k renders of 25 ms
\* and j renders of 101 ms, none of them with a subscriber
SlowRenderRuns == {0, 9, 10}
VerySlowRenderRuns == {0, 1}

\* k calls of componentDidRender, one after the other
RECURSIVE Rendered(_, _, _, _)
Rendered(st, componentName, renderTime, k) ==
    IF k = 0 THEN st
    ELSE CHOOSE r \in {Rendered(next, componentName, renderTime, k - 1) :
                         next \in {componentDidRender(st, componentName,
                                                      renderTime)}} : TRUE

InitLongSession ==
    /\ platformWeb \in BOOLEAN
    /\ memoryCapability = NoCapability
    /\ provider = ProviderMounted
    /\ now = StartClock
    /\ enabled = TRUE
    /\ sessionStartTime = StartClock
    /\ listeners = [t \in EventTypes |-> <<>>]
    /\ slowRenderThreshold = DefaultSlowRenderThreshold
    /\ verySlowRenderThreshold = DefaultVerySlowRenderThreshold
    /\ memorySpikeThreshold = DefaultMemorySpikeThreshold
    /\ targetFps = DefaultFps
    /\ rafQueue = IF platformWeb THEN 0 ELSE 1
    /\ imQueue = 0
    /\ lastFrameTime = IF platformWeb THEN 0 ELSE StartClock
    /\ frameCount = 0
    /\ droppedFrameCount = 0
    /\ fpsHistory = <<>>
    /\ currentFps = DefaultFps
    /\ minFps = DefaultFps
    /\ maxFps = DefaultFps
    /\ customData = EmptyMap
    /\ held = NoHandle
    /\ emitted = <<>>
    /\ calls = <<>>
    /\ raised = FALSE
    /\ \E k \in SlowRenderRuns, j \in VerySlowRenderRuns :
          LET s0 == [cur |-> NullScreen, screens |-> EmptyMap,
                     heap |-> EmptyMap, gm |-> createEmptyGlobalMetrics,
                     visited |-> <<>>, emitted |-> <<>>, calls |-> <<>>,
                     raised |-> FALSE]
              s1 == enterScreen(s0, "Home", 0, 0)
              s2 == componentDidMount(s1, "Header", 25, 0, 0)
              s3 == Rendered(s2, "Header", 25, k)
              s4 == Rendered(s3, "Header", 101, j)
          IN  /\ currentScreen = s4.cur
              /\ screens = s4.screens
              /\ heap = s4.heap
              /\ globalMetrics = s4.gm
              /\ screensVisited = s4.visited
              /\ lastOp = Op("session", <<k, j>>)

HealthFps == {30, 52, 60}
HealthMemory == {150 * MB, 250 * MB}

NextHealth ==
    \/ \E v \in HealthFps : Len(fpsHistory) < MaxFpsSamples /\ RecordFps(v)
    \/ \E m \in HealthMemory : CheckMemorySpike(m)
    \/ Reset

SpecHealth == InitLongSession /\ [][NextHealth]_vars

\* the runtime's memory sources change: the native call starts or stops
\* failing, the heap statistic appears or moves
MemorySourceChanges(capability) ==
    /\ capability # memoryCapability
    /\ memoryCapability' = capability
    /\ lastOp' = Op("memorySource", <<capability.native, capability.heap>>)
    /\ Quiet
    /\ UNCHANGED <<session, listeners, frames, fps, customData, config,
                   platformWeb, provider, now, held>>

\* the operations that read memory, with the readings getCurrentMemory()
\* gives them
NextCapability ==
    \/ Start
    \/ \E c \in MemoryCapabilities : MemorySourceChanges(c)
    \/ \E n \in ScreenNames :
           EnterScreen(n, getCurrentMemory(memoryCapability),
                       getCurrentMemory(memoryCapability))
    \/ \E n \in OneScreen :
           ExitScreen(n, getCurrentMemory(memoryCapability), FALSE)
    \/ \E c \in ComponentNames :
           ComponentDidMount(c, 25, getCurrentMemory(memoryCapability),
                             getCurrentMemory(memoryCapability))

SpecCapability == Init /\ [][NextCapability]_vars

\* what is left alone by the operations of the ProfilerProvider
ProviderOthers ==
    <<session, listeners, frames, fps, customData, config, platformWeb,
      memoryCapability, now, held>>

RecordScreen(metrics) ==
    /\ ~provider.enabled
         \/ Len(provider.arrays[provider.sessionRef.screens]) < MaxRecorded
    /\ lastOp' = Op("recordScreen", <<metrics>>)
    /\ Quiet
    /\ provider' = recordScreen(provider, metrics)
    /\ UNCHANGED ProviderOthers

RecordRender(metrics) ==
    /\ ~provider.enabled
         \/ Len(provider.arrays[provider.sessionRef.renders]) < MaxRecorded
    /\ lastOp' = Op("recordRender", <<metrics>>)
    /\ Quiet
    /\ provider' = recordRender(provider, metrics)
    /\ UNCHANGED ProviderOthers

ClearSession ==
    /\ lastOp' = Op("clearSession", <<>>)
    /\ Quiet
    /\ provider' = clearSession(provider, now)
    /\ UNCHANGED ProviderOthers

\* the provider is rendered again with another `enabled` in its config prop
ProviderRendered(flag) ==
    /\ flag # provider.enabled
    /\ lastOp' = Op("ProfilerProvider", <<flag>>)
    /\ Quiet
    /\ provider' = [provider EXCEPT !.enabled = flag]
    /\ UNCHANGED ProviderOthers

ScreenRecords == {[screenName |-> "Home", mountTime |-> 120]}
RenderRecords == {[componentName |-> "Header", actualDuration |-> d] :
                      d \in FastDurations}

NextProvider ==
    \/ \E m \in ScreenRecords : RecordScreen(m)
    \/ \E m \in RenderRecords : RecordRender(m)
    \/ ClearSession
    \/ \E flag \in BOOLEAN : ProviderRendered(flag)
    \/ \E dt \in LongSteps : Tick(dt)

SpecProvider == Init /\ [][NextProvider]_vars

\* block times at, just over and far over the 50 ms that make a jank
JankBlockTimes == {50, 51, 300}

\* JS-thread blocks reported in every session state
NextJank ==
    \/ Lifecycle
    \/ \E n \in OneScreen, m1, m2 \in NoMemory : EnterScreen(n, m1, m2)
    \/ \E n \in OneScreen, m \in NoMemory : ExitScreen(n, m, FALSE)
    \/ \E b \in JankBlockTimes : TrackJsBlock(b, "timer")

SpecJank == Init /\ [][NextJank]_vars

\* FPS readings and targets, zero among them
ScoreFps == {0, 30, 52, 130}
ScoreTargets == {0, 30, 60, 120}

NextScore ==
    \/ \E v \in ScoreFps : Len(fpsHistory) < MaxFpsSamples /\ RecordFps(v)
    \/ \E t \in ScoreTargets : SetTargetFps(t)
    \/ Reset

SpecScore == Init /\ [][NextScore]_vars

\* everything reset() clears
NextData ==
    \/ Lifecycle
    \/ \E n \in OneScreen, m1, m2 \in NoMemory : EnterScreen(n, m1, m2)
    \/ Components({25})
    \/ \E v \in {30, 130} : Len(fpsHistory) < MaxFpsSamples /\ RecordFps(v)
    \/ \E k \in CustomKeys, v \in {1} : SetCustomData(k, v)
    \/ \E k \in CustomKeys \cup {Undefined} : ClearCustomData(k)

SpecData == Init /\ [][NextData]_vars

\* the sample that follows `last` in a run of distinct readings
FpsRamp(last) == (last + 7) % 121

\* a long run of samples: the first is free, every later one is the ramp's
FpsSamples ==
    IF fpsHistory = <<>> THEN FpsInputs
    ELSE {FpsRamp(fpsHistory[Len(fpsHistory)])}

NextFps ==
    \/ \E v \in FpsSamples : RecordFps(v)
    \/ Reset

SpecFps == Init /\ [][NextFps]_vars

\* visits: screens entered one after the other and again while time passes
\* and interactions and mounts are recorded
NextVisits ==
    \/ Lifecycle
    \/ \E n \in ScreenNames, m1, m2 \in NoMemory : EnterScreen(n, m1, m2)
    \/ \E dt \in LongSteps : Tick(dt)
    \/ TrackInteraction
    \/ \E c \in ComponentNames, m1, m2 \in NoMemory :
           ComponentDidMount(c, 25, m1, m2)

SpecVisits == Init /\ [][NextVisits]_vars

\* thresholds and collected data across start, stop and reset
NextConfig ==
    \/ Lifecycle
    \/ \E o \in ConfigureOptions : Configure(o)
    \/ \E n \in OneScreen, m1, m2 \in NoMemory : EnterScreen(n, m1, m2)
    \/ \E c \in ComponentNames, m1, m2 \in NoMemory :
           ComponentDidMount(c, 25, m1, m2)
    \/ \E v \in {30} : Len(fpsHistory) < MaxFpsSamples /\ RecordFps(v)

SpecConfig == Init /\ [][NextConfig]_vars

\* memory readings handed to the spike check
SpikeReadings == {10 * MB, 30 * MB, 65 * MB}

NextMemory ==
    \/ Lifecycle
    \/ \E current \in SpikeReadings : CheckMemorySpike(current)
    \/ \E e \in {"onMemorySpike"}, cb \in Callbacks : On(e, cb)

SpecMemory == Init /\ [][NextMemory]_vars

\* consumers that keep what the profiler hands out
NextView ==
    \/ Start
    \/ Stop(TRUE)
    \/ \E n \in OneScreen, m1, m2 \in NoMemory : EnterScreen(n, m1, m2)
    \/ \E n \in OneScreen, m \in NoMemory, k \in BOOLEAN : ExitScreen(n, m, k)
    \/ \E e \in {"onScreenExit"}, cb \in {"cbLog"} : On(e, cb)
    \/ \E c \in ComponentNames, d \in {25}, m1, m2 \in NoMemory :
          ComponentDidMount(c, d, m1, m2)
    \/ TrackInteraction
    \/ GetSnapshot
    \/ \E n \in OneScreen : GetScreenMetrics(n)
    \/ \E c \in ComponentNames : GetComponentMetrics(c)
    \/ ConsumerWrite

SpecView == Init /\ [][NextView]_vars

\* ================================================================ claims
SlowRenderEvents(q) == SelectSeq(q, LAMBDA e : e.type = "onSlowRender")

IsRenderOp(op) == op.name \in {"componentDidMount", "componentDidRender"}

\* C1: an accepted componentDidMount / componentDidRender of duration d
\* counts d as very slow (one event with the very-slow threshold) when
\* d > verySlowRenderThreshold, else as slow (one event with the slow
\* threshold) when d > slowRenderThreshold, else as neither; never as both.
C1_ExclusiveClassification ==
    [][(IsRenderOp(lastOp') /\ Accepted(Current)) =>
         LET c == lastOp'.args[1]
             d == lastOp'.args[2]
             g == globalMetrics
         IN  IF d > verySlowRenderThreshold
             THEN /\ globalMetrics'.verySlowRenders = g.verySlowRenders + 1
                  /\ globalMetrics'.slowRenders = g.slowRenders
                  /\ SlowRenderEvents(emitted') =
                       <<SlowRenderEvent(c, d, verySlowRenderThreshold)>>
             ELSE IF d > slowRenderThreshold
             THEN /\ globalMetrics'.slowRenders = g.slowRenders + 1
                  /\ globalMetrics'.verySlowRenders = g.verySlowRenders
                  /\ SlowRenderEvents(emitted') =
                       <<SlowRenderEvent(c, d, slowRenderThreshold)>>
             ELSE /\ globalMetrics'.slowRenders = g.slowRenders
                  /\ globalMetrics'.verySlowRenders = g.verySlowRenders
                  /\ SlowRenderEvents(emitted') = <<>>]_vars

\* a 101 ms mount was counted as very slow only, after a slow one
C1_Witness ==
    /\ IsRenderOp(lastOp)
    /\ lastOp.args[2] > verySlowRenderThreshold
    /\ globalMetrics.verySlowRenders = 1
    /\ globalMetrics.slowRenders = 1
    /\ Len(emitted) = 1
    /\ emitted[1].threshold = verySlowRenderThreshold

ComponentRecordOk(r) ==
    /\ r.renderCount >= 1
    /\ r.renderCount = r.applied.n
    /\ r.totalRenderTime = r.applied.sum
    /\ r.averageRenderTime = Num(r.totalRenderTime, r.renderCount)

\* C2: every component record has renderCount >= 1, totalRenderTime equal to
\* the sum of the durations applied to it and averageRenderTime equal to
\* totalRenderTime / renderCount; its renderCount never decreases.
C2_ComponentAverages ==
    /\ [](\A n \in DOMAIN screens :
            \A c \in DOMAIN heap[screens[n]].childComponents :
               ComponentRecordOk(heap[screens[n]].childComponents[c]))
    /\ [][\A id \in (DOMAIN heap) \cap (DOMAIN heap') :
            \A c \in DOMAIN heap[id].childComponents :
               /\ c \in DOMAIN heap'[id].childComponents
               /\ heap'[id].childComponents[c].renderCount >=
                    heap[id].childComponents[c].renderCount]_vars

\* Header mounted in 12 ms and rendered in 25 ms: two renders, average 18.5
C2_Witness ==
    /\ "Home" \in DOMAIN screens
    /\ "Header" \in DOMAIN heap[screens["Home"]].childComponents
    /\ LET r == heap[screens["Home"]].childComponents["Header"]
       IN  /\ r.renderCount = 2
           /\ r.totalRenderTime = 37
           /\ r.averageRenderTime = Num(37, 2)
           /\ lastOp.name = "componentDidRender"

\* C3: enterScreen(B) on an enabled session with another screen A current
\* adds the elapsed time to A's time on screen, emits screen-exit for A and
\* then screen-enter for B, and leaves B current.
C3_ImplicitExit ==
    [][(lastOp'.name = "enterScreen" /\ enabled
        /\ currentScreen # NullScreen /\ currentScreen # lastOp'.args[1]) =>
         LET a == currentScreen
             b == lastOp'.args[1]
         IN  /\ currentScreen' = b
             /\ Len(emitted') = 2
             /\ emitted'[1].type = "onScreenExit"
             /\ emitted'[1].screenName = a
             /\ emitted'[2] = ScreenEnterEvent(b, now)
             /\ a \in DOMAIN screens
             /\ a \in DOMAIN screens'
             /\ heap'[screens'[a]].timeOnScreen =
                  heap[screens[a]].timeOnScreen
                    + (now - heap[screens[a]].timestamp)]_vars

\* C4: at most one frame-sampling loop is alive, whatever the interleaving
\* of start(), stop(), reset() and the scheduler's callbacks.
C4_SingleFrameLoop == rafQueue + imQueue <= 1

FrameLoopOp(op) == op.name \in {"trackFrame", "afterInteractions"}

\* C5: stop() disables the session; while it is disabled a frame-loop
\* callback changes no frame count, dropped-frame count, metrics or screen
\* record, emits nothing and does not reschedule itself; a second stop()
\* leaves the enabled flag and the screen and component records unchanged.
C5_StopHaltsSampling ==
    [][/\ lastOp'.name = "stop" => ~enabled'
       /\ (FrameLoopOp(lastOp') /\ ~enabled) =>
            /\ UNCHANGED <<frameCount, droppedFrameCount, globalMetrics,
                           screens, heap, lastFrameTime>>
            /\ emitted' = <<>>
            /\ rafQueue' + imQueue' = rafQueue + imQueue - 1
       /\ (lastOp'.name = "stop" /\ ~enabled) =>
            UNCHANGED <<enabled, currentScreen, screens, heap>>]_vars

\* a loop that had counted a frame ran once more after stop() and ended
C5_Witness ==
    /\ lastOp.name = "afterInteractions"
    /\ ~enabled
    /\ frameCount >= 1
    /\ rafQueue = 0
    /\ imQueue = 0

\* C6: start() on a session that is not running leaves no screen record, no
\* current screen and the initial global metrics.
C6_StartClearsState ==
    [][(lastOp'.name = "start" /\ ~enabled) =>
         /\ screens' = EmptyMap
         /\ currentScreen' = NullScreen
         /\ globalMetrics' = createEmptyGlobalMetrics]_vars

\* C7: right after reset() there is no screen record, no current screen,
\* the global metrics are initial, the FPS history, the visited screens and
\* the custom data are empty, and getProfilerData() reports no renders, the
\* screen name '--' and no components.
C7_ResetComplete ==
    lastOp.name = "reset" =>
        /\ screens = EmptyMap
        /\ currentScreen = NullScreen
        /\ globalMetrics = createEmptyGlobalMetrics
        /\ fpsHistory = <<>>
        /\ screensVisited = <<>>
        /\ customData = EmptyMap
        /\ ProfilerData.renders.total = 0
        /\ ProfilerData.screen.name = "--"
        /\ ProfilerData.components = EmptyMap

\* reset() ran on a running session that had a screen record, FPS samples
\* and custom data
C7_Witness ==
    /\ lastOp.name = "reset"
    /\ enabled
    /\ lastOp.args[1] >= 1
    /\ lastOp.args[2] >= 1
    /\ lastOp.args[3] >= 1

\* C8: what a consumer reads through a snapshot, a screen or component
\* record or the metrics of a screen-exit event stays what it was when the
\* consumer got it.
C8_ConsumersGetCopies == held.kind # "none" => View(heap, held) = held.seen

RECURSIVE ExpectedCalls(_)
ExpectedCalls(evs) ==
    IF evs = <<>> THEN <<>>
    ELSE LET subs == listeners[Head(evs).type]
         IN  [i \in 1 .. Len(subs) |-> Invocation(subs[i], Head(evs))]
               \o ExpectedCalls(Tail(evs))

\* C9: every emission invokes all subscribers of its type in subscription
\* order with the same payload, also after one of them threw; the operation
\* does not throw and completes (exitScreen clears the current screen,
\* enterScreen makes its screen current and emits screen-enter); only
\* on / off change the subscriptions.
C9_EmitIsolatesSubscribers ==
    /\ [](/\ ~raised
          /\ calls = ExpectedCalls(emitted)
          /\ (lastOp.name = "exitScreen" /\ enabled) =>
                currentScreen # lastOp.args[1]
          /\ (lastOp.name = "enterScreen" /\ enabled) =>
                /\ currentScreen = lastOp.args[1]
                /\ emitted[Len(emitted)].type = "onScreenEnter")
    /\ [][listeners' # listeners => lastOp'.name \in {"on", "off"}]_vars

\* a subscriber threw and the one subscribed after it got the same payload
C9_Witness ==
    \E i \in 1 .. Len(calls) - 1 :
        /\ Throws(calls[i].callback)
        /\ ~Throws(calls[i + 1].callback)
        /\ calls[i + 1].payload = calls[i].payload

\* C10: componentDidMount, componentDidRender and trackInteraction on a
\* disabled session, or with no current screen, change no screen or
\* component record and no global counter and emit nothing.
C10_DiscardedWithoutScreen ==
    [][((IsRenderOp(lastOp') \/ lastOp'.name = "trackInteraction")
        /\ (~enabled \/ currentScreen = NullScreen)) =>
         /\ UNCHANGED <<screens, heap, globalMetrics, currentScreen>>
         /\ emitted' = <<>>]_vars

\* a mount arrived on a stopped session whose current screen has a record
C10_Witness ==
    /\ lastOp.name = "componentDidMount"
    /\ ~enabled
    /\ currentScreen \in DOMAIN screens
    /\ globalMetrics.totalMounts = 1

\* C11: exitScreen(name) for a name that has no screen record emits no
\* event and leaves every part of the profiler state unchanged, the
\* current screen included.
C11_ExitOfUnknownIgnored ==
    [][(lastOp'.name = "exitScreen"
        /\ lastOp'.args[1] \notin DOMAIN screens) =>
         /\ emitted' = <<>>
         /\ UNCHANGED <<session, frames, fps, customData, config,
                        listeners>>]_vars

\* C12: the FPS history never holds more than 60 entries; a recordFps(v)
\* leaves exactly the most recent min(n, 60) recorded values in recording
\* order: v is appended, and only when 60 were held is one value evicted,
\* the oldest.
C12_FpsHistoryWindow ==
    /\ [](Len(fpsHistory) <= FpsHistoryCap)
    /\ [](\A i \in 1 .. Len(fpsHistory) - 1 :
              fpsHistory[i + 1] = FpsRamp(fpsHistory[i]))
    /\ [][lastOp'.name = "recordFps" =>
            LET all == Append(fpsHistory, lastOp'.args[1])
                n == IF Len(all) < FpsHistoryCap THEN Len(all)
                     ELSE FpsHistoryCap
            IN  fpsHistory' = SubSeq(all, Len(all) - n + 1, Len(all))]_vars

\* the 61st sample of a run that began with 30 has just evicted the 30
C12_Witness ==
    /\ lastOp.name = "recordFps"
    /\ Len(fpsHistory) = FpsHistoryCap
    /\ fpsHistory[1] = FpsRamp(30)
    /\ fpsHistory[FpsHistoryCap] = lastOp.args[1]
    /\ lastOp.args[1] = 87

\* C13: recordFps(value) clamps its argument to 0 .. 120: the current FPS,
\* every entry of the history and the session minimum and maximum lie
\* within 0 .. 120.
C13_FpsClamped ==
    /\ currentFps \in 0 .. 120
    /\ minFps \in 0 .. 120
    /\ maxFps \in 0 .. 120
    /\ \A i \in 1 .. Len(fpsHistory) : fpsHistory[i] \in 0 .. 120

C15_EveryRenderRecorded ==
    [][(IsRenderOp(lastOp') /\ Accepted(Current)) =>
         LET c == lastOp'.args[1]
             d == lastOp'.args[2]
             old == heap[screens[currentScreen]].childComponents
             new == heap'[screens'[currentScreen]].childComponents
             n0 == IF c \in DOMAIN old THEN old[c].renderCount ELSE 0
             t0 == IF c \in DOMAIN old THEN old[c].totalRenderTime ELSE 0
         IN  /\ c \in DOMAIN new
             /\ new[c].renderCount = n0 + 1
             /\ new[c].totalRenderTime = t0 + d
             /\ new[c].averageRenderTime = Num(t0 + d, n0 + 1)
             /\ new[c].lastRenderTime = d]_vars

\* C16: enterScreen(name) while name is already the current screen performs
\* an exit followed by a re-enter: a screen-exit event is emitted and the
\* elapsed time is added to the screen's cumulative time before the entry
\* timestamp is reset and screen-enter is emitted again.
C16_ReenterExitsFirst ==
    [][(lastOp'.name = "enterScreen" /\ enabled
        /\ currentScreen = lastOp'.args[1]
        /\ currentScreen \in DOMAIN screens) =>
         LET name == lastOp'.args[1]
             m == heap[screens[name]]
             m2 == heap'[screens'[name]]
         IN  /\ Len(emitted') = 2
             /\ emitted'[1].type = "onScreenExit"
             /\ emitted'[2] = ScreenEnterEvent(name, now)
             /\ m2.timeOnScreen = m.timeOnScreen + (now - m.timestamp)
             /\ m2.timestamp = now]_vars

\* C16 as amended: enterScreen(name) while name is already the current
\* screen performs no exit: no screen-exit event is emitted and no elapsed
\* time is added to the cumulative time; the entry timestamp is reset,
\* totalMounts grows by 1 and screen-enter is emitted again.
C16_ReenterWithoutExit ==
    [][(lastOp'.name = "enterScreen" /\ enabled
        /\ currentScreen = lastOp'.args[1]) =>
         LET name == lastOp'.args[1]
             m2 == heap'[screens'[name]]
         IN  /\ emitted' = <<ScreenEnterEvent(name, now)>>
             /\ currentScreen' = name
             /\ m2.timeOnScreen = IF name \in DOMAIN screens
                                  THEN heap[screens[name]].timeOnScreen
                                  ELSE 0
             /\ m2.timestamp = now
             /\ globalMetrics'.totalMounts = globalMetrics.totalMounts + 1
             /\ screensVisited' = screensVisited]_vars

\* Home was entered again 40 ms into its visit: the 40 ms were not added
C16_Witness ==
    /\ lastOp.name = "enterScreen"
    /\ enabled
    /\ lastOp.args[2] = lastOp.args[1]
    /\ currentScreen = lastOp.args[1]
    /\ heap[screens[currentScreen]].timeOnScreen = 0
    /\ heap[screens[currentScreen]].timestamp = StartClock + 40
    /\ globalMetrics.totalMounts = 2
    /\ Len(emitted) = 1

\* C17: there is exactly one screen record per distinct screen name entered
\* since the last start() / reset(); entering a name again reuses its record
\* and keeps its timeOnScreen, interactionCount, droppedFrames,
\* jsThreadBlockTime and component records.
C17_OneRecordPerScreen ==
    /\ [](\A n \in DOMAIN screens :
              /\ heap[screens[n]].screenName = n
              /\ \A k \in DOMAIN screens : screens[k] = screens[n] => k = n)
    /\ [][IF lastOp'.name = "enterScreen" /\ enabled
          THEN LET name == lastOp'.args[1]
               IN  /\ DOMAIN screens' = DOMAIN screens \cup {name}
                   /\ name \in DOMAIN screens =>
                        LET m == heap[screens[name]]
                            m2 == heap'[screens'[name]]
                        IN  /\ screens'[name] = screens[name]
                            /\ m2.timeOnScreen = m.timeOnScreen
                            /\ m2.interactionCount = m.interactionCount
                            /\ m2.droppedFrames = m.droppedFrames
                            /\ m2.jsThreadBlockTime = m.jsThreadBlockTime
                            /\ m2.childComponents = m.childComponents
          ELSE IF lastOp'.name = "reset"
                  \/ (lastOp'.name = "start" /\ ~enabled)
          THEN screens' = EmptyMap
          ELSE DOMAIN screens' = DOMAIN screens]_vars

\* Home was entered again from Details and still has the 40 ms and the
\* interaction of its first visit
C17_Witness ==
    /\ lastOp.name = "enterScreen"
    /\ enabled
    /\ lastOp.args[2] # NullScreen
    /\ lastOp.args[2] # lastOp.args[1]
    /\ DOMAIN screens = ScreenNames
    /\ heap[screens[currentScreen]].timeOnScreen = 40
    /\ heap[screens[currentScreen]].interactionCount = 1

\* C18: configure() changes only the thresholds named in its argument and
\* leaves the others, every screen and component record, the global
\* counters (accumulated slowRenders / verySlowRenders included), the FPS
\* history and the custom data unchanged; a mount or render is classified
\* with the thresholds in force when it arrives.
C18_ConfigureOnlyThresholds ==
    /\ [][lastOp'.name = "configure" =>
            LET o == lastOp'.args[1]
                Set(k, before, after) ==
                    after = IF k \in DOMAIN o THEN o[k] ELSE before
            IN  /\ Set("slowRenderThreshold", slowRenderThreshold,
                       slowRenderThreshold')
                /\ Set("verySlowRenderThreshold", verySlowRenderThreshold,
                       verySlowRenderThreshold')
                /\ Set("memorySpikeThreshold", memorySpikeThreshold,
                       memorySpikeThreshold')
                /\ emitted' = <<>>
                /\ UNCHANGED <<session, frames, fps, customData, targetFps,
                               listeners>>]_vars
    /\ [][(IsRenderOp(lastOp') /\ Accepted(Current)) =>
            LET d == lastOp'.args[2]
                counted == globalMetrics'.slowRenders
                             + globalMetrics'.verySlowRenders
                           > globalMetrics.slowRenders
                             + globalMetrics.verySlowRenders
            IN  /\ counted <=> (d > slowRenderThreshold
                                \/ d > verySlowRenderThreshold)
                /\ UNCHANGED config]_vars

\* the slow threshold was raised above a render already counted as slow:
\* the count is kept and the threshold that was not named is unchanged
C18_Witness ==
    /\ lastOp.name = "configure"
    /\ DOMAIN lastOp.args[1] = {"slowRenderThreshold"}
    /\ slowRenderThreshold = 110
    /\ verySlowRenderThreshold = DefaultVerySlowRenderThreshold
    /\ globalMetrics.slowRenders = 1

\* C19: configure() and reset() invoked while isEnabled() is false are
\* no-ops: they change no threshold and no collected data.
C19_NoOpWhileDisabled ==
    [][(lastOp'.name \in {"configure", "reset"} /\ ~enabled) =>
         UNCHANGED <<config, session, frames, fps, customData>>]_vars

\* C19 as amended: configure() and reset() act on a disabled session as on
\* an enabled one: configure() sets every threshold it names, reset() clears
\* the screen records, the current screen, the global counters, the visited
\* screens and the FPS statistics; neither enables the session.
C19_EffectiveWhileDisabled ==
    [][(lastOp'.name \in {"configure", "reset"} /\ ~enabled) =>
         /\ ~enabled'
         /\ IF lastOp'.name = "configure"
            THEN LET o == lastOp'.args[1]
                 IN  /\ "slowRenderThreshold" \in DOMAIN o =>
                          slowRenderThreshold' = o["slowRenderThreshold"]
                     /\ "verySlowRenderThreshold" \in DOMAIN o =>
                          verySlowRenderThreshold' =
                              o["verySlowRenderThreshold"]
                     /\ "memorySpikeThreshold" \in DOMAIN o =>
                          memorySpikeThreshold' = o["memorySpikeThreshold"]
            ELSE /\ screens' = EmptyMap
                 /\ currentScreen' = NullScreen
                 /\ globalMetrics' = createEmptyGlobalMetrics
                 /\ screensVisited' = <<>>
                 /\ fpsHistory' = <<>>
                 /\ customData' = EmptyMap
                 /\ <<currentFps', minFps', maxFps'>> =
                        <<DefaultFps, DefaultFps, DefaultFps>>
                 /\ UNCHANGED config]_vars

\* a stopped session was configured with a slow threshold of 110 ms
C19_Witness ==
    /\ lastOp.name = "configure"
    /\ ~enabled
    /\ "slowRenderThreshold" \in DOMAIN lastOp.args[1]
    /\ slowRenderThreshold = 110
    /\ globalMetrics.totalMounts > 0

C21_StartIdempotent ==
    [][(lastOp'.name = "start" /\ enabled) =>
         /\ emitted' = <<>>
         /\ UNCHANGED <<session, frames, fps, customData, config,
                        listeners>>]_vars

\* start() was called on a session that had a current screen and had
\* counted a frame: the count and the earlier start time are still there
C21_Witness ==
    /\ lastOp.name = "start"
    /\ enabled
    /\ currentScreen \in DOMAIN screens
    /\ frameCount >= 1
    /\ sessionStartTime < now
    /\ rafQueue + imQueue = 1

\* C22: off(type, cb) and the function returned by on(type, cb) each remove
\* exactly the subscription of cb to type: later emissions of type do not
\* invoke cb, the other callbacks of type (and their order) and the
\* subscriptions to other types are unaffected, and a second call, or a
\* call for a callback that is not subscribed, changes nothing.
C22_UnsubscribeExact ==
    /\ [][lastOp'.name \in {"off", "unsubscribe"} =>
            LET type == lastOp'.args[1]
                cb == lastOp'.args[2]
            IN  /\ ~Member(listeners'[type], cb)
                /\ listeners'[type] =
                     SelectSeq(listeners[type], LAMBDA x : x # cb)
                /\ \A t \in EventTypes \ {type} :
                       listeners'[t] = listeners[t]
                /\ ~Member(listeners[type], cb) => listeners' = listeners
                /\ emitted' = <<>>
                /\ UNCHANGED <<session, frames, fps, customData,
                               config>>]_vars
    /\ [](\A i \in 1 .. Len(calls) :
              Member(listeners[calls[i].payload.type], calls[i].callback))

\* cbLog and cbThrows were subscribed to onScreenExit, the function returned
\* for cbLog was called, and the next screen exit invoked cbThrows only
C22_Witness ==
    /\ lastOp.name = "exitScreen"
    /\ held = [kind |-> "unsubscribe", event |-> "onScreenExit",
               callback |-> "cbLog"]
    /\ listeners["onScreenExit"] = <<"cbThrows">>
    /\ Len(emitted) = 1
    /\ Len(calls) = 1
    /\ calls[1].callback = "cbThrows"

\* C23: getCurrentScreenSummary() returns null when no screen is current;
\* otherwise its score is max(0, 100 - 10 * (components of the current
\* screen whose averageRenderTime > slowRenderThreshold) - (20 if averageFps
\* < 50, else 10 if < 55) - (20 if memory delta > 50 MB, else 10 if > 20 MB)
\* - (15 if droppedFrames > 10) - (15 if jsThreadBlockTime > 500)), and the
\* issues list has one entry per applied deduction, in that order.
C23_ScreenSummaryScore ==
    LET r == getCurrentScreenSummary
    IN  IF currentScreen = NullScreen THEN r = NoSummary
        ELSE IF currentScreen \notin DOMAIN screens THEN ~r.isNull
        ELSE
          LET m == heap[screens[currentScreen]]
              cs == m.childComponents
              slow == Cardinality(
                        {c \in DOMAIN cs :
                           cs[c].totalRenderTime >
                             slowRenderThreshold * cs[c].renderCount})
              fpsKind == IF m.averageFps < 50 THEN <<"lowFps">>
                         ELSE IF m.averageFps < 55 THEN <<"slightlyLowFps">>
                         ELSE <<>>
              memKind == IF m.memoryDelta > 50 * MB THEN <<"highMemory">>
                         ELSE IF m.memoryDelta > 20 * MB
                         THEN <<"moderateMemory">>
                         ELSE <<>>
              kinds == (IF slow > 0 THEN <<"slowComponents">> ELSE <<>>)
                       \o fpsKind \o memKind
                       \o (IF m.droppedFrames > 10 THEN <<"droppedFrames">>
                           ELSE <<>>)
                       \o (IF m.jsThreadBlockTime > 500 THEN <<"jsBlocked">>
                           ELSE <<>>)
              Points(k) == IF k = "slowComponents" THEN 10 * slow
                           ELSE IF k \in {"lowFps", "highMemory"} THEN 20
                           ELSE IF k \in {"slightlyLowFps", "moderateMemory"}
                           THEN 10
                           ELSE 15
              total == 100 - (IF slow > 0 THEN 10 * slow ELSE 0)
                           - (IF fpsKind # <<>> THEN Points(fpsKind[1]) ELSE 0)
                           - (IF memKind # <<>> THEN Points(memKind[1]) ELSE 0)
                           - (IF m.droppedFrames > 10 THEN 15 ELSE 0)
                           - (IF m.jsThreadBlockTime > 500 THEN 15 ELSE 0)
          IN  /\ ~r.isNull
              /\ r.score = IF total < 0 THEN 0 ELSE total
              /\ [i \in 1 .. Len(r.issues) |-> r.issues[i].issue] = kinds

\* the penalty conditions of the health score that hold for given readings
PenaltyConditions(f, slow, verySlow, memory) ==
    {c \in {"fps<55", "fps<50", "slow>10", "verySlow>0", "memory>100MB",
            "memory>200MB"} :
        \/ c = "fps<55" /\ f < 55
        \/ c = "fps<50" /\ f < 50
        \/ c = "slow>10" /\ slow > 10
        \/ c = "verySlow>0" /\ verySlow > 0
        \/ c = "memory>100MB" /\ memory > 100 * MB
        \/ c = "memory>200MB" /\ memory > 200 * MB}

\* C24: the health score of getProfilerData() is max(0, 100 - (30 if
\* current FPS < 50, else 15 if < 55) - (20 if slowRenders > 10) - (25 if
\* verySlowRenders > 0) - (20 if current memory > 200 MB, else 10 if > 100
\* MB)); it lies in 0 .. 100 and is never higher for readings under which a
\* superset of the penalty conditions holds.
C24_HealthScore ==
    LET f == currentFps
        slow == globalMetrics.slowRenders
        verySlow == globalMetrics.verySlowRenders
        memory == globalMetrics.currentMemoryUsage
        here == PenaltyConditions(f, slow, verySlow, memory)
        sum == 100 - (IF "fps<50" \in here THEN 30
                      ELSE IF "fps<55" \in here THEN 15 ELSE 0)
                   - (IF "slow>10" \in here THEN 20 ELSE 0)
                   - (IF "verySlow>0" \in here THEN 25 ELSE 0)
                   - (IF "memory>200MB" \in here THEN 20
                      ELSE IF "memory>100MB" \in here THEN 10 ELSE 0)
        score == ProfilerData.health.score
    IN  /\ score = IF sum < 0 THEN 0 ELSE sum
        /\ score \in 0 .. 100
        /\ \A f2 \in HealthFps, s2 \in {0, 10, 11}, v2 \in {0, 1},
              m2 \in {0} \cup HealthMemory :
              LET there == PenaltyConditions(f2, s2, v2, m2)
                  other == health(f2, s2, v2, m2).score
              IN  /\ here \subseteq there => other <= score
                  /\ there \subseteq here => score <= other

\* every penalty applies: under 50 FPS, 11 slow renders, a
\* very slow render and more than 200 MB leave a score of 5
C24_Witness ==
    /\ lastOp.name \in {"recordFps", "checkMemorySpike"}
    /\ currentFps < 50
    /\ globalMetrics.slowRenders = 11
    /\ globalMetrics.verySlowRenders = 1
    /\ globalMetrics.currentMemoryUsage > 200 * MB
    /\ ProfilerData.health.score = 5
    /\ Len(ProfilerData.health.issues) = 4

\* C30: health.status of getProfilerData() is a function of health.score
\* alone: "excellent" iff score >= 80, "good" iff 60 <= score < 80, "fair"
\* iff 40 <= score < 60, "poor" iff score < 40.
C30_StatusFromScore ==
    LET h == ProfilerData.health
    IN  /\ h.status = "excellent" <=> h.score >= 80
        /\ h.status = "good" <=> (60 <= h.score /\ h.score < 80)
        /\ h.status = "fair" <=> (40 <= h.score /\ h.score < 60)
        /\ h.status = "poor" <=> h.score < 40

\* a session whose only penalty is more than 10 slow renders scores exactly
\* 80, the lowest "excellent"
C30_Witness ==
    /\ lastOp.name = "recordFps"
    /\ globalMetrics.slowRenders = 11
    /\ ProfilerData.health.score = 80
    /\ ProfilerData.health.status = "excellent"

\* C25: fps.score of getProfilerData() is min(100, round(currentFps /
\* targetFps * 100)) and an integer in 0 .. 100 for every value passed to
\* recordFps and every target passed to setTargetFps, a target of 0 included.
C25_FpsScore ==
    LET score == ProfilerData.fps.score
    IN  /\ score.kind = "num"
        /\ score.den = 1
        /\ score.num \in 0 .. 100
        /\ targetFps > 0 =>
               LET r == RoundDiv(currentFps * 100, targetFps)
               IN  score.num = IF r > 100 THEN 100 ELSE r

\* C26: setCustomData(k, v) followed by getCustomData(k) returns v;
\* clearCustomData(k) with a key argument removes only key k and leaves every
\* other key's value unchanged, for every string key, the empty string
\* included; clearCustomData() with no argument and reset() remove all keys.
C26_CustomData ==
    [][/\ lastOp'.name = "setCustomData" =>
           /\ lastOp'.args[1] \in DOMAIN customData'
           /\ customData'[lastOp'.args[1]] = lastOp'.args[2]
       /\ (lastOp'.name = "clearCustomData" /\ lastOp'.args[1] # Undefined) =>
           /\ lastOp'.args[1] \notin DOMAIN customData'
           /\ \A k \in CustomKeys \ {lastOp'.args[1]} :
                  /\ k \in DOMAIN customData' <=> k \in DOMAIN customData
                  /\ k \in DOMAIN customData =>
                         customData'[k] = customData[k]
       /\ (lastOp'.name = "clearCustomData" /\ lastOp'.args[1] = Undefined) =>
           customData' = EmptyMap
       /\ lastOp'.name = "reset" => customData' = EmptyMap]_vars

\* C27: screensVisited of getProfilerData() holds each screen name entered
\* since the last reset() exactly once, in order of first entry: an entry of
\* a new name appends it, a re-entry changes nothing, reset() empties the
\* sequence and no other operation touches it.
C27_VisitedOnceInOrder ==
    /\ [](LET visited == ProfilerData.navigation.screensVisited
          IN  \A i, j \in 1 .. Len(visited) :
                  visited[i] = visited[j] => i = j)
    /\ [][LET visited == navigation.screensVisited
              after == navigation'.screensVisited
              n == lastOp'.args[1]
          IN  IF lastOp'.name = "enterScreen" /\ enabled /\ ~raised'
              THEN after = IF \E i \in 1 .. Len(visited) : visited[i] = n
                           THEN visited
                           ELSE visited \o <<n>>
              ELSE IF lastOp'.name = "reset" THEN after = <<>>
              ELSE after = visited]_vars

\* "Home" is entered again after "Details" and keeps its first place
C27_Witness ==
    /\ lastOp = Op("enterScreen", <<"Home", "Details">>)
    /\ ~raised
    /\ ProfilerData.navigation.screensVisited = <<"Home", "Details">>

\* C28: reading current memory never throws: when the native memory
\* capability is missing or raises and there is no fallback heap statistic,
\* the reading is 0 and the operation that asked for it (enterScreen,
\* exitScreen, componentDidMount) completes with its other updates applied.
C28_MemoryReadDegrades ==
    [][(/\ lastOp'.name \in {"enterScreen", "exitScreen", "componentDidMount"}
        /\ memoryCapability.native \in {"missing", "throws"}
        /\ memoryCapability.heap = "missing") =>
       /\ ~raised'
       /\ (lastOp'.name = "enterScreen" /\ enabled) =>
           LET n == lastOp'.args[1]
               left == currentScreen
           IN  /\ currentScreen' = n
               /\ n \in DOMAIN screens'
               /\ heap'[screens'[n]].memoryAtMount = 0
               /\ heap'[screens'[n]].timestamp = now
               /\ globalMetrics'.totalMounts = globalMetrics.totalMounts + 1
               /\ emitted'[Len(emitted')] = ScreenEnterEvent(n, now)
               /\ (left \notin {NullScreen, n} /\ left \in DOMAIN screens) =>
                      /\ heap'[screens'[left]].currentMemory = 0
                      /\ heap'[screens'[left]].memoryDelta =
                             0 - heap[screens[left]].memoryAtMount
       /\ (/\ lastOp'.name = "exitScreen"
           /\ enabled
           /\ lastOp'.args[1] \in DOMAIN screens) =>
           LET n == lastOp'.args[1]
               before == heap[screens[n]]
               after == heap'[screens'[n]]
           IN  /\ after.currentMemory = 0
               /\ after.memoryDelta = 0 - before.memoryAtMount
               /\ after.timeOnScreen =
                      before.timeOnScreen + (now - before.timestamp)
               /\ Len(emitted') = 1
               /\ emitted'[1].type = "onScreenExit"
               /\ currentScreen' = IF currentScreen = n THEN NullScreen
                                   ELSE currentScreen
       /\ (lastOp'.name = "componentDidMount" /\ Accepted(Current)) =>
           LET c == lastOp'.args[1]
               was == heap[screens[currentScreen]].childComponents
               rec == heap'[screens'[currentScreen]].childComponents[c]
           IN  /\ c \notin DOMAIN was =>
                      /\ rec.memoryAtMount = 0
                      /\ rec.currentMemory = 0
                      /\ rec.renderCount = 1
               /\ rec.mountTime = lastOp'.args[2]
               /\ globalMetrics'.totalMounts = globalMetrics.totalMounts + 1
      ]_vars

\* a screen entered while the native module gave a reading is exited after
\* the module began to throw: the exit reads 0 and still closes the visit
C28_Witness ==
    /\ lastOp = Op("exitScreen", <<"Home">>)
    /\ memoryCapability.native = "throws"
    /\ memoryCapability.heap = "missing"
    /\ ~raised
    /\ "Home" \in DOMAIN screens
    /\ heap[screens["Home"]].memoryAtMount = NativeReading
    /\ heap[screens["Home"]].currentMemory = 0
    /\ heap[screens["Home"]].memoryDelta = 0 - NativeReading
    /\ currentScreen = NullScreen

\* C29: trackInteraction() on an enabled session with an active screen
\* increases that screen's interactionCount by exactly 1 and changes nothing
\* else: no other screen's record, no component record, no global counter,
\* and no event is emitted.
C29_InteractionOnly ==
    [][(/\ lastOp'.name = "trackInteraction"
        /\ enabled
        /\ currentScreen # NullScreen) =>
       /\ currentScreen \in DOMAIN screens
       /\ screens' = screens
       /\ LET before == heap[screens[currentScreen]]
              after == heap'[screens[currentScreen]]
          IN  /\ after.interactionCount = before.interactionCount + 1
              /\ after = [before EXCEPT !.interactionCount = @ + 1]
       /\ \A n \in DOMAIN screens \ {currentScreen} :
              heap'[screens[n]] = heap[screens[n]]
       /\ emitted' = <<>>
       /\ calls' = <<>>
       /\ ~raised'
       /\ UNCHANGED <<enabled, sessionStartTime, currentScreen, globalMetrics,
                      screensVisited, listeners, frames, fps, customData,
                      config>>]_vars

\* C31: in every reachable state a screen that getCurrentScreen() reports
\* has a screen record, so that mounts, renders and interactions for the
\* current screen find it; also after stop() and start() with a screen
\* current.
C31_CurrentScreenHasRecord ==
    currentScreen # NullScreen => currentScreen \in DOMAIN screens

\* C32: exitScreen(name) adds to the screen's timeOnScreen exactly the time
\* elapsed since the screen was entered, once per visit: for a screen that
\* has a record but is no longer current (enterScreen of another screen has
\* exited it already) it adds nothing.
C32_VisitCountedOnce ==
    [][(/\ lastOp'.name = "exitScreen"
        /\ enabled
        /\ lastOp'.args[1] \in DOMAIN screens) =>
         LET n == lastOp'.args[1]
             before == heap[screens[n]]
         IN  /\ n \in DOMAIN screens'
             /\ heap'[screens'[n]].timeOnScreen =
                    IF currentScreen = n
                    THEN before.timeOnScreen + (now - before.timestamp)
                    ELSE before.timeOnScreen]_vars

\* C33: screen-enter and screen-exit events of a screen alternate: a
\* screen-exit event is emitted only for the screen that is current when the
\* operation begins, hence not a second time by exitScreen(A) once
\* enterScreen(B) has exited A.
C33_ExitOnlyOfCurrent ==
    [][\A i \in 1 .. Len(emitted') :
           emitted'[i].type = "onScreenExit" =>
               emitted'[i].screenName = currentScreen]_vars

\* C34: after any accepted componentDidMount / componentDidRender calls
\* globalMetrics.averageRenderTime is a finite number, the mean of the
\* durations folded into it: the first duration folded is the average, every
\* later one leaves the average between its old value and the duration; also
\* for a mount recorded while totalRenders is 0.
C34_FiniteRunningMean ==
    /\ [](IsFinite(globalMetrics.averageRenderTime))
    /\ [][(IsRenderOp(lastOp') /\ Accepted(Current)) =>
            LET d == lastOp'.args[2]
                old == globalMetrics.averageRenderTime
                new == globalMetrics'.averageRenderTime
            IN  /\ IsFinite(new)
                /\ old = Num(0, 1) => new = Num(d, 1)
                /\ (IsFinite(old) /\ old.num <= d * old.den) =>
                       /\ old.num * new.den <= new.num * old.den
                       /\ new.num <= d * new.den
                /\ (IsFinite(old) /\ old.num >= d * old.den) =>
                       /\ old.num * new.den >= new.num * old.den
                       /\ new.num >= d * new.den]_vars

\* C35: checkMemorySpike(current) emits exactly one memory-spike event, with
\* delta = current - previous currentMemoryUsage, current and the threshold,
\* if and only if delta > memorySpikeThreshold; in every case it sets
\* currentMemoryUsage to current and peakMemoryUsage to the maximum of the
\* previous peak and current.
C35_SpikeDetection ==
    [][lastOp'.name = "checkMemorySpike" =>
         LET current == lastOp'.args[1]
             delta == current - globalMetrics.currentMemoryUsage
             peak == globalMetrics.peakMemoryUsage
         IN  /\ emitted' = IF delta > memorySpikeThreshold
                           THEN <<MemorySpikeEvent(delta, current,
                                                   memorySpikeThreshold)>>
                           ELSE <<>>
             /\ globalMetrics'.currentMemoryUsage = current
             /\ globalMetrics'.peakMemoryUsage =
                    IF current > peak THEN current ELSE peak]_vars

\* 65 MB read after 10 MB under the default threshold of 50 MB: one event,
\* with a delta of 55 MB
C35_Witness ==
    /\ lastOp = Op("checkMemorySpike", <<65 * MB>>)
    /\ memorySpikeThreshold = DefaultMemorySpikeThreshold
    /\ emitted = <<MemorySpikeEvent(55 * MB, 65 * MB, 50 * MB)>>
    /\ globalMetrics.currentMemoryUsage = 65 * MB
    /\ globalMetrics.peakMemoryUsage = 65 * MB

\* C36: the memory readings that enterScreen, exitScreen and
\* componentDidMount take reach spike detection: after a reading m the
\* reported current memory is m and the peak is at least m, and a rise of
\* more than memorySpikeThreshold over the previous reading gives a
\* memory-spike event.
C36_ReadingsReachSpikeCheck ==
    [][LET n == lastOp'.args[1]
           entered == lastOp'.name = "enterScreen" /\ enabled
           exited == /\ lastOp'.name = "exitScreen"
                     /\ enabled
                     /\ n \in DOMAIN screens
           mounted == /\ lastOp'.name = "componentDidMount"
                      /\ Accepted(Current)
                      /\ n \notin DOMAIN
                             heap[screens[currentScreen]].childComponents
           m == IF entered THEN heap'[screens'[n]].memoryAtMount
                ELSE IF exited THEN heap'[screens'[n]].currentMemory
                ELSE heap'[screens'[currentScreen]].childComponents[n]
                         .currentMemory
       IN  (entered \/ exited \/ mounted) =>
               /\ memoryData'.current = m
               /\ memoryData'.peak >= m
               /\ m - memoryData.current > memorySpikeThreshold =>
                      \E i \in 1 .. Len(emitted') :
                          emitted'[i].type = "onMemorySpike"]_vars

\* C37: a frame-loop tick of an enabled session with delta > 0 since the
\* previous tick and n = floor(delta / 16.67): if n > 1 the global
\* dropped-frame count and the droppedFrames of the active screen (if one is
\* active) grow by n - 1 and exactly one frame-drop event with droppedFrames
\* = n - 1 is emitted; if n <= 1 no dropped-frame counter changes and no
\* frame-drop event is emitted.
C37_DroppedFrames ==
    [][(/\ lastOp'.name = "trackFrame"
        /\ enabled
        /\ now - lastFrameTime > 0) =>
         LET delta == now - lastFrameTime
             n == CHOOSE k \in 0 .. delta :
                      /\ k * FrameIntervalX100 <= delta * 100
                      /\ delta * 100 < (k + 1) * FrameIntervalX100
         IN  IF n > 1
             THEN /\ droppedFrameCount' = droppedFrameCount + (n - 1)
                  /\ currentScreen # NullScreen =>
                         /\ currentScreen \in DOMAIN screens
                         /\ heap'[screens'[currentScreen]].droppedFrames =
                                heap[screens[currentScreen]].droppedFrames
                                  + (n - 1)
                  /\ Len(emitted') = 1
                  /\ emitted'[1].type = "onFrameDrop"
                  /\ emitted'[1].droppedFrames = n - 1
             ELSE /\ droppedFrameCount' = droppedFrameCount
                  /\ \A s \in DOMAIN screens :
                         heap'[screens'[s]].droppedFrames =
                             heap[screens[s]].droppedFrames
                  /\ emitted' = <<>>]_vars

\* C38: navigation.totalScreenViews of getProfilerData() is the number of
\* enterScreen calls accepted since the last start() / reset(): an accepted
\* enterScreen adds 1, start() of a stopped session and reset() set it to 0,
\* and no other operation, componentDidMount in particular, changes it.
C38_ScreenViewsCountEntries ==
    [][navigation'.totalScreenViews =
           IF lastOp'.name = "enterScreen" /\ enabled /\ ~raised'
           THEN navigation.totalScreenViews + 1
           ELSE IF lastOp'.name = "reset" THEN 0
           ELSE IF lastOp'.name = "start" /\ ~enabled THEN 0
           ELSE navigation.totalScreenViews]_vars

\* C39: in the ProfilerProvider, clearSession() yields a session whose
\* screens, renders and slowRenders lists are empty, however many
\* recordScreen / recordRender calls went before.
C39_ClearSessionEmpties ==
    lastOp.name = "clearSession" =>
        /\ getSession.screens = <<>>
        /\ getSession.renders = <<>>
        /\ getSession.slowRenders = <<>>

\* C40: trackJsBlock(blockTime, source) on an enabled session adds blockTime
\* to the active screen's jsThreadBlockTime (when a screen is active) and
\* emits exactly one jank event if and only if blockTime > 50, whether or
\* not a screen is active; on a disabled session it changes nothing and
\* emits nothing.
C40_JsBlock ==
    [][lastOp'.name = "trackJsBlock" =>
         LET blockTime == lastOp'.args[1]
             source == lastOp'.args[2]
         IN  IF enabled
             THEN /\ emitted' = IF blockTime > 50
                                THEN <<JankEvent(blockTime, source)>>
                                ELSE <<>>
                  /\ currentScreen # NullScreen =>
                         /\ currentScreen \in DOMAIN screens
                         /\ heap'[screens'[currentScreen]].jsThreadBlockTime =
                                heap[screens[currentScreen]].jsThreadBlockTime
                                  + blockTime
                  /\ UNCHANGED <<currentScreen, screens, globalMetrics>>
             ELSE /\ emitted' = <<>>
                  /\ UNCHANGED <<currentScreen, screens, heap,
                                 globalMetrics>>]_vars

====
